---- MODULE Spec2Model ----
(***************************************************************************)
(* Model of the seawolf hub (src/src/hub): client sessions, the request    *)
(* dispatcher, the closed-clients queue and its reaper thread, the hub     *)
(* shutdown path and the shared-variable store.                            *)
(*                                                                         *)
(* Every thread of the hub is a process with a program counter.  A step is *)
(* the code between two points where another thread can observe or change  *)
(* shared data: a section under one mutex is one step.                     *)
(***************************************************************************)
EXTENDS Integers, Sequences, FiniteSets, TLC

\* ------------------------------------------------------------------ bounds
NClients == 2          \* connections the environment opens
MaxReq == 2            \* frames one connection sends before it falls silent
FrameLen == 2          \* bytes of a packed frame

\* ------------------------------------------------------- program constants
MAX_CLIENTS == 1023    \* FD_SETSIZE - 1
Password == "s3cret"   \* the configured "password" option

Clients == 1..NClients
NULL == 0              \* the sentinel appended to closed_clients at shutdown

\* Variable definitions file: name -> default, persistent, readonly.
\* Values are counted in units of 10^-7 so that "%f" (6 decimals) rounds.
VarDefs ==
    [ Depth  |-> [default |-> 15000000, persistent |-> FALSE, readonly |-> FALSE],
      Tuning |-> [default |-> 0,        persistent |-> TRUE,  readonly |-> FALSE],
      Limit  |-> [default |-> 90000000, persistent |-> TRUE,  readonly |-> TRUE ] ]
VarNames == DOMAIN VarDefs

\* ------------------------------------------------------------ wire frames
\* A frame on the wire: request id, declared component count, and the
\* NUL-terminated strings actually present in its data section.
Frame(rid, count, data) == [rid |-> rid, count |-> count, data |-> data]

\* What a read past the end of the data section may yield.
Garbage == {"", Password}

\* Comm_unpackMessage: the components are located by walking count strings
\* from the start of the data; the NULs of the data are never counted.
\* Strings beyond the data section are whatever memory holds.
Comm_unpackMessage(f) ==
    { [rid |-> f.rid, count |-> f.count, comps |-> cs] :
        cs \in { s \in [1..f.count -> {f.data[i] : i \in 1..Len(f.data)} \cup Garbage] :
                   \A i \in 1..f.count :
                       IF i <= Len(f.data) THEN s[i] = f.data[i] ELSE s[i] \in Garbage } }

\* A frame is well formed when its data holds exactly count terminators.
WellFormed(f) == f.count = Len(f.data)

\* ------------------------------------------------- frames the peers send
\* Session frames: authentication, shutdown and frames the dispatcher refuses.
F_AuthOk      == Frame(7, 3, <<"COMM", "AUTH", Password>>)
F_AuthBad     == Frame(8, 3, <<"COMM", "AUTH", "wrong">>)
F_Shutdown    == Frame(9, 2, <<"COMM", "SHUTDOWN">>)
F_Empty       == Frame(0, 0, <<>>)
F_CommVerb    == Frame(0, 2, <<"COMM", "PING">>)
F_AuthCount   == Frame(0, 2, <<"COMM", "AUTH">>)
F_UnknownNs   == Frame(0, 2, <<"BOGUS", "X">>)
F_LogCount    == Frame(0, 3, <<"LOG", "app", "2">>)
F_Log         == Frame(0, 4, <<"LOG", "app", "2", "hello">>)
F_LogInfo     == Frame(0, 4, <<"LOG", "app", "1", "trace">>)
\* Malformed: more terminators than declared, and fewer than declared.
F_ExtraNul    == Frame(9, 2, <<"COMM", "SHUTDOWN", "x">>)
F_MissingNul  == Frame(7, 3, <<"COMM", "AUTH">>)

F_GetDepth  == Frame(11, 3, << "VAR", "GET", "Depth" >>)
F_SetDepthA == Frame(12, 4, << "VAR", "SET", "Depth", "2.75" >>)
F_SetDepthB == Frame(13, 4, << "VAR", "SET", "Depth", "3.0000004" >>)
F_AddDepth  == Frame(14, 3, << "WATCH", "ADD", "Depth" >>)
F_DelDepth  == Frame(15, 3, << "WATCH", "DEL", "Depth" >>)
F_GetGhost  == Frame(21, 3, << "VAR", "GET", "Ghost" >>)
F_SetGhost  == Frame(22, 4, << "VAR", "SET", "Ghost", "2.75" >>)
F_AddGhost  == Frame(23, 3, << "WATCH", "ADD", "Ghost" >>)
F_DelGhost  == Frame(24, 3, << "WATCH", "DEL", "Ghost" >>)
F_SetLimit  == Frame(25, 4, << "VAR", "SET", "Limit", "2.75" >>)
F_AddLimit  == Frame(26, 3, << "WATCH", "ADD", "Limit" >>)

F_FilterMatch  == Frame(0, 4, << "NOTIFY", "ADD_FILTER", "1", "ALARM hot" >>)
F_FilterAction == Frame(0, 4, << "NOTIFY", "ADD_FILTER", "2", "ALARM" >>)
F_FilterPrefix == Frame(0, 4, << "NOTIFY", "ADD_FILTER", "3", "ALARM" >>)
F_ClearFilters == Frame(0, 2, << "NOTIFY", "CLEAR_FILTERS" >>)
F_OutHot       == Frame(0, 3, << "NOTIFY", "OUT", "ALARM hot" >>)
F_OutIst       == Frame(0, 3, << "NOTIFY", "OUT", "ALARMIST" >>)
F_OutAlarm     == Frame(0, 3, << "NOTIFY", "OUT", "ALARM" >>)

SessionFrames ==
    { F_AuthOk, F_AuthBad, F_Shutdown, F_Empty, F_Log, F_ExtraNul, F_MissingNul,
      F_CommVerb, F_AuthCount, F_UnknownNs, F_LogCount }

\* ------------------------------------------------------------------ state
VARIABLES
    state,            \* Hub_Client.state of every session
    clients,          \* the active-clients list
    closed_clients,   \* the queue of sessions awaiting the reaper
    sockShut,         \* the reaper has shut down and closed the session's socket
    in_use,           \* read holders of Hub_Client.in_use
    freed,            \* the session's memory has been released
    pc,               \* position of each session thread
    msg,              \* the message a session thread is processing
    reqs,             \* frames received from each connection so far
    kreason,          \* reason of the kick a session thread is performing
    sent,             \* sends attempted on each session's socket, in order, since
                      \* the session's thread last received a frame
    rpc, rcur,        \* the reaper thread and the session it is reaping
    mpc, mi,          \* the main thread and its index in the kick loop
    run_mainloop,     \* netloop.c run flag
    mainloop_running, \* netloop.c running flag
    global_clients_lock,  \* holder of the global clients lock
    value,            \* Hub_Var.value of every defined variable
    subscribers,      \* Hub_Var.subscribers
    subscribed_vars,  \* Hub_Client.subscribed_vars
    var_wlocked,      \* Hub_Var.lock is write-held by a function that returned
    var_readers,      \* read holders of Hub_Var.lock
    do_flush_flag,    \* var.c dirty flag of the persistence writer
    fan,              \* locals of the variable request a session thread performs
    lastSet,          \* value string of the latest successful SET per variable
    hublog,           \* lines written by the hub logger
    filters,          \* Hub_Client.filters: type and text, in insertion order
    bcast,            \* locals of the broadcast a session thread performs
    sendres,          \* the call of Hub_Net_sendPackedMessage made by the step just
                      \* taken: the session and the value n returned
    fpc,              \* position of the persistence writer (Hub_Var_dbFlusher)
    tmp_db,           \* the temporary database file, as written by the writer
    db,               \* the live database file: per persistent variable, its text
    iofailed,         \* history: a file operation of the writer has failed
    cpc,              \* position of the thread that runs Hub_close
    atSignal,         \* history: the persistent values set when Hub_close began
    passes,           \* history: passes the writer has started in the current
                      \* burst of SETs
    boot,             \* the start-up: main's position, whether the clients
                      \* list and the closed-clients queue exist, and the
                      \* connections waiting in the listen backlog
    sock,             \* per session, the descriptor number in client->sock
    fdOwner,          \* per descriptor number, the session whose connection is
                      \* open at it (NULL: the number is free)
    client_lock,      \* per session, the thread that holds client->lock
    wr,               \* per session thread, the send() call it is in
    comm,             \* a message of the library and its packed and unpacked forms
    conf,             \* a configuration file and the outcome of reading it
    notified          \* history: per session and sender, the number (among the
                      \* sender's frames) of the last NOTIFY OUT sent on to it

netVars == << clients, sockShut, freed, rpc, rcur, mpc, mi, run_mainloop,
              mainloop_running, global_clients_lock >>
storeVars == << value, subscribers, subscribed_vars, var_wlocked, var_readers,
                do_flush_flag, fan, lastSet >>
noteVars == << filters, bcast, notified >>
ioVars == << sendres >>
persistVars == << fpc, tmp_db, db, iofailed, cpc, atSignal, passes >>
libVars == << comm, conf >>
wireVars == << sock, fdOwner, client_lock, wr >>
hubVars == << state, closed_clients, in_use, pc, msg, reqs, kreason, sent, hublog,
              netVars, storeVars, noteVars, ioVars, persistVars, wireVars, boot >>
vars == << hubVars, libVars >>

\* Locals of a variable request: the variable, the "%f" string built, the
\* fan-out index; and two records kept for the claims: the sessions the
\* fan-out has sent to (to), and the sessions that were subscribed when the
\* SET wrote the value and have stayed subscribed since (before).
NoFan == [name |-> "", str |-> "", i |-> 0, to |-> << >>, before |-> {}]

NoMsg == [rid |-> 0, count |-> 0, comps |-> <<>>, wf |-> TRUE]

\* The step just taken made no send call.
NoSend == [to |-> NULL, n |-> 0]

\* Locals of Hub_Net_broadcastNotification: the body, the index in the
\* clients list, the send_to list and the index in it; n is the number of the
\* NOTIFY OUT frame among the frames its sender's thread received.
NoBcast == [body |-> "", n |-> 0, i |-> 0, send_to |-> << >>, j |-> 0]

\* Start-up is over and the hub serves on lists that Hub_Net_init has made.
Booted == [at |-> "serving", lists |-> "new", backlog |-> 0]

\* No send() call in progress.
NoWrite == [to |-> NULL, conn |-> NULL]

\* No message is being packed and no configuration file being read.
NoComm == [stage |-> "idle"]
NoConf == [stage |-> "idle"]
LibInit == comm = NoComm /\ conf = NoConf

\* The persistent variables, and printf "%.4f" of a non-negative value.
PersistentNames == { x \in VarNames : VarDefs[x].persistent }
Pad4(n) ==
    IF n < 10 THEN "000" \o ToString(n)
    ELSE IF n < 100 THEN "00" \o ToString(n)
    ELSE IF n < 1000 THEN "0" \o ToString(n)
    ELSE ToString(n)
Format4(v) ==
    LET q == (v + 500) \div 1000
    IN  ToString(q \div 10000) \o "." \o Pad4(q % 10000)

\* The database file the writer's loop produces from the values val; a file
\* that fopen(.., "w") has truncated and that holds no entry yet; no file.
DbOf(val) == [x \in PersistentNames |-> Format4(val[x])]
Truncated == [x \in PersistentNames |-> ""]
NoFile == [x \in PersistentNames |-> "-"]

\* Hub_Var_init: the persistent values are those of the database file, the
\* writer has been spawned and waits on the condition; Hub_close has not
\* been called.
PersistInit ==
    /\ fpc = "waiting"
    /\ tmp_db = NoFile
    /\ db = DbOf([x \in VarNames |-> VarDefs[x].default])
    /\ iofailed = FALSE
    /\ cpc = "idle"
    /\ atSignal = [x \in PersistentNames |-> -1]
    /\ passes = 0

\* Hub_Client_new and the file-scope initialisers of netloop.c, at the point
\* where Hub_Net_mainLoop has spawned the reaper and starts accepting.
HubInit ==
    /\ state = [c \in Clients |-> "UNKNOWN"]
    /\ clients = <<>>
    /\ closed_clients = <<>>
    /\ sockShut = [c \in Clients |-> FALSE]
    /\ in_use = [c \in Clients |-> 0]
    /\ freed = [c \in Clients |-> FALSE]
    /\ pc = [c \in Clients |-> "none"]
    /\ msg = [c \in Clients |-> NoMsg]
    /\ reqs = [c \in Clients |-> 0]
    /\ kreason = [c \in Clients |-> ""]
    /\ sent = [c \in Clients |-> <<>>]
    /\ rpc = "pop"
    /\ rcur = NULL
    /\ mpc = "accept"
    /\ mi = 1
    /\ run_mainloop = TRUE
    /\ mainloop_running = TRUE
    /\ global_clients_lock = "free"
    /\ value = [x \in VarNames |-> VarDefs[x].default]
    /\ subscribers = [x \in VarNames |-> <<>>]
    /\ subscribed_vars = [c \in Clients |-> <<>>]
    /\ var_wlocked = [x \in VarNames |-> FALSE]
    /\ var_readers = [x \in VarNames |-> 0]
    /\ do_flush_flag = 0
    /\ fan = [c \in Clients |-> NoFan]
    /\ lastSet = [x \in VarNames |-> ""]
    /\ hublog = {}
    /\ filters = [c \in Clients |-> << >>]
    /\ bcast = [c \in Clients |-> NoBcast]
    /\ notified = [d \in Clients |-> [a \in Clients |-> 0]]
    /\ sendres = NoSend
    /\ sock = [c \in Clients |-> NULL]
    /\ fdOwner = [k \in Clients |-> NULL]
    /\ client_lock = [c \in Clients |-> NULL]
    /\ wr = [c \in Clients |-> NoWrite]
    /\ boot = Booted
    /\ PersistInit

Init == HubInit /\ LibInit

\* ---------------------------------------------------------------- helpers
\* The values Hub_Net_sendPackedMessage returns: -1 when the socket is not
\* writable or send fails, else the number of bytes send wrote, which may be
\* fewer than the frame's.
SendResults == {-1} \cup 1..FrameLen

\* Hub_Net_sendPackedMessage returning n: the frame is handed to the socket.
Hub_Net_sendPackedMessage(c, rid, comps, n) ==
    /\ sent' = [sent EXCEPT ![c] = Append(@, [rid |-> rid, comps |-> comps])]
    /\ sendres' = [to |-> c, n |-> n]

\* Hub_Net_sendMessage as used by callers that drop the result.
Hub_Net_sendMessage(c, rid, comps) ==
    \E n \in SendResults : Hub_Net_sendPackedMessage(c, rid, comps, n)

\* Hub_Net_markClientClosed: the state test and the append under remove_client_lock.
Hub_Net_markClientClosed(c) ==
    IF state[c] # "CLOSED"
    THEN /\ state' = [state EXCEPT ![c] = "CLOSED"]
         /\ closed_clients' = Append(closed_clients, c)
    ELSE UNCHANGED << state, closed_clients >>

\* List_indexOf / List_remove on a sequence.
IndexOf(s, x) == IF \E i \in 1..Len(s) : s[i] = x
                 THEN CHOOSE i \in 1..Len(s) : s[i] = x /\ \A j \in 1..(i-1) : s[j] # x
                 ELSE 0
RemoveAt(s, i) == IF i \in 1..Len(s)
                  THEN SubSeq(s, 1, i-1) \o SubSeq(s, i+1, Len(s))
                  ELSE s

\* The dispatcher without its test of client->state.
Route_Ungated(m, st) ==
    IF m.count = 0 THEN "empty"
    ELSE IF m.comps[1] = "COMM" THEN
        IF m.count = 3 /\ m.comps[2] = "AUTH" THEN "auth"
        ELSE IF m.count = 2 /\ m.comps[2] = "SHUTDOWN" THEN "shutdown"
        ELSE "reject"
    ELSE IF st \in { "UNAUTHENTICATED", "CONNECTED", "CLOSED" } THEN
        IF m.comps[1] = "NOTIFY" THEN
            IF m.count = 3 /\ m.comps[2] = "OUT" THEN "notify_out"
            ELSE IF m.count = 4 /\ m.comps[2] = "ADD_FILTER" THEN "add_filter"
            ELSE IF m.count = 2 /\ m.comps[2] = "CLEAR_FILTERS" THEN "clear_filters"
            ELSE "reject"
        ELSE IF m.comps[1] = "VAR" THEN
            IF m.count = 3 /\ m.comps[2] = "GET" THEN "var_get"
            ELSE IF m.count = 4 /\ m.comps[2] = "SET" THEN "var_set"
            ELSE "reject"
        ELSE IF m.comps[1] = "WATCH" THEN
            IF m.count = 3 /\ m.comps[2] = "ADD" THEN "watch_add"
            ELSE IF m.count = 3 /\ m.comps[2] = "DEL" THEN "watch_del"
            ELSE "reject"
        ELSE IF m.comps[1] = "LOG" THEN
            IF m.count = 4 THEN "log" ELSE "reject"
        ELSE "reject"
    ELSE "reject"

\* Hub_Process_process and the handlers' own tests: which branch a message takes.
Route(m, st) ==
    IF m.count = 0 THEN "empty"
    ELSE IF m.comps[1] = "COMM" THEN
        IF m.count = 3 /\ m.comps[2] = "AUTH" THEN "auth"
        ELSE IF m.count = 2 /\ m.comps[2] = "SHUTDOWN" THEN "shutdown"
        ELSE "reject"
    ELSE IF st = "CONNECTED" THEN
        IF m.comps[1] = "NOTIFY" THEN
            IF m.count = 3 /\ m.comps[2] = "OUT" THEN "notify_out"
            ELSE IF m.count = 4 /\ m.comps[2] = "ADD_FILTER" THEN "add_filter"
            ELSE IF m.count = 2 /\ m.comps[2] = "CLEAR_FILTERS" THEN "clear_filters"
            ELSE "reject"
        ELSE IF m.comps[1] = "VAR" THEN
            IF m.count = 3 /\ m.comps[2] = "GET" THEN "var_get"
            ELSE IF m.count = 4 /\ m.comps[2] = "SET" THEN "var_set"
            ELSE "reject"
        ELSE IF m.comps[1] = "WATCH" THEN
            IF m.count = 3 /\ m.comps[2] = "ADD" THEN "watch_add"
            ELSE IF m.count = 3 /\ m.comps[2] = "DEL" THEN "watch_del"
            ELSE "reject"
        ELSE IF m.comps[1] = "LOG" THEN
            IF m.count = 4 THEN "log" ELSE "reject"
        ELSE "reject"
    ELSE "reject"

\* -------------------------------------------------------- the main thread
\* Hub_Net_mainLoop / Hub_Net_acceptClient: accept() returned a connection
\* while the run flag is set.  Sessions are numbered in the order accepted.
Hub_Net_acceptClient(c) ==
    /\ mpc = "accept" /\ run_mainloop
    /\ state[c] = "UNKNOWN"
    /\ \A d \in Clients : d < c => state[d] # "UNKNOWN"
    /\ Len(clients) < MAX_CLIENTS
    /\ global_clients_lock = "free"
    /\ state' = [state EXCEPT ![c] = "UNAUTHENTICATED"]
    /\ clients' = Append(clients, c)
    /\ pc' = [pc EXCEPT ![c] = "recv"]
    /\ UNCHANGED << closed_clients, in_use, msg, reqs, kreason, sent, hublog,
                    sockShut, freed, rpc, rcur, mpc, mi, run_mainloop,
                    mainloop_running, global_clients_lock, storeVars >>
    /\ UNCHANGED noteVars
    /\ sendres' = NoSend
    /\ UNCHANGED persistVars
    /\ UNCHANGED libVars

\* A connection is accepted; its descriptor number is not followed.
Accept(c) == Hub_Net_acceptClient(c) /\ UNCHANGED wireVars /\ UNCHANGED boot

\* A connection is accepted on the lowest descriptor number that is free.
AcceptFd(c) ==
    /\ Hub_Net_acceptClient(c)
    /\ LET k == CHOOSE k \in Clients :
                   fdOwner[k] = NULL /\ \A j \in 1..(k - 1) : fdOwner[j] # NULL
       IN  /\ sock' = [sock EXCEPT ![c] = k]
           /\ fdOwner' = [fdOwner EXCEPT ![k] = c]
    /\ UNCHANGED << client_lock, wr >>
    /\ UNCHANGED boot

\* Hub_Net_close / Hub_Net_preClose: a shutdown signal clears the run flag.
PreClose ==
    /\ mainloop_running /\ run_mainloop
    /\ run_mainloop' = FALSE
    /\ UNCHANGED << state, closed_clients, in_use, pc, msg, reqs, kreason, sent,
                    hublog, clients, sockShut, freed, rpc, rcur, mpc, mi,
                    mainloop_running, global_clients_lock, storeVars >>
    /\ UNCHANGED noteVars
    /\ sendres' = NoSend
    /\ UNCHANGED persistVars
    /\ UNCHANGED libVars
    /\ UNCHANGED wireVars
    /\ UNCHANGED boot

\* accept() returns, on a connection of the environment, with the run flag
\* cleared: the connection is dropped, the loop is left and the global clients
\* lock is taken for the kick loop.
MainBreak ==
    /\ mpc = "accept" /\ ~run_mainloop
    /\ global_clients_lock = "free"
    /\ global_clients_lock' = "main"
    /\ mi' = 1
    /\ mpc' = "kick"
    /\ UNCHANGED << state, closed_clients, in_use, pc, msg, reqs, kreason, sent,
                    hublog, clients, sockShut, freed, rpc, rcur, run_mainloop,
                    mainloop_running, storeVars >>
    /\ UNCHANGED noteVars
    /\ sendres' = NoSend
    /\ UNCHANGED persistVars
    /\ UNCHANGED libVars
    /\ UNCHANGED wireVars
    /\ UNCHANGED boot

\* Kick loop, Hub_Client_kick first half: in_use read lock, then mark closed.
MainKickMark ==
    /\ mpc = "kick" /\ mi <= Len(clients)
    /\ in_use' = [in_use EXCEPT ![clients[mi]] = @ + 1]
    /\ Hub_Net_markClientClosed(clients[mi])
    /\ mpc' = "kick_send"
    /\ UNCHANGED << pc, msg, reqs, kreason, sent, hublog, clients, sockShut, freed,
                    rpc, rcur, mi, run_mainloop, mainloop_running,
                    global_clients_lock, storeVars >>
    /\ UNCHANGED noteVars
    /\ sendres' = NoSend
    /\ UNCHANGED persistVars
    /\ UNCHANGED libVars
    /\ UNCHANGED wireVars
    /\ UNCHANGED boot

\* Hub_Client_kick second half: send COMM KICKING, release in_use.
MainKickSend ==
    /\ mpc = "kick_send"
    /\ Hub_Net_sendMessage(clients[mi], 0, <<"COMM", "KICKING", "Hub closing">>)
    /\ in_use' = [in_use EXCEPT ![clients[mi]] = @ - 1]
    /\ mi' = mi + 1
    /\ mpc' = "kick"
    /\ UNCHANGED << state, closed_clients, pc, msg, reqs, kreason, hublog, clients,
                    sockShut, freed, rpc, rcur, run_mainloop, mainloop_running,
                    global_clients_lock, storeVars >>
    /\ UNCHANGED noteVars
    /\ UNCHANGED persistVars
    /\ UNCHANGED libVars
    /\ UNCHANGED wireVars
    /\ UNCHANGED boot

\* End of the kick loop: release the lock and push the sentinel.
MainSentinel ==
    /\ mpc = "kick" /\ mi > Len(clients)
    /\ global_clients_lock' = "free"
    /\ closed_clients' = Append(closed_clients, NULL)
    /\ mpc' = "join"
    /\ UNCHANGED << state, in_use, pc, msg, reqs, kreason, sent, hublog, clients,
                    sockShut, freed, rpc, rcur, mi, run_mainloop, mainloop_running,
                    storeVars >>
    /\ UNCHANGED noteVars
    /\ sendres' = NoSend
    /\ UNCHANGED persistVars
    /\ UNCHANGED libVars
    /\ UNCHANGED wireVars
    /\ UNCHANGED boot

\* Task_wait on the reaper, then signal the done-condition.
MainDone ==
    /\ mpc = "join" /\ rpc = "done"
    /\ mainloop_running' = FALSE
    /\ mpc' = "done"
    /\ UNCHANGED << state, closed_clients, in_use, pc, msg, reqs, kreason, sent,
                    hublog, clients, sockShut, freed, rpc, rcur, mi, run_mainloop,
                    global_clients_lock, storeVars >>
    /\ UNCHANGED noteVars
    /\ sendres' = NoSend
    /\ UNCHANGED persistVars
    /\ UNCHANGED libVars
    /\ UNCHANGED wireVars
    /\ UNCHANGED boot

\* ------------------------------------------------------ the reaper thread
\* Hub_Net_removeMarkedClosedClients.  Popping a session whose memory has
\* already been released makes the reaper run on freed memory: it stops
\* being tracked ("uaf"), whether the process then aborts or hangs.
ReaperPop ==
    /\ rpc = "pop" /\ Len(closed_clients) > 0
    /\ closed_clients' = Tail(closed_clients)
    /\ IF Head(closed_clients) = NULL THEN rpc' = "done" /\ rcur' = NULL
       ELSE IF freed[Head(closed_clients)] THEN rpc' = "uaf" /\ rcur' = NULL
       ELSE rpc' = "shut" /\ rcur' = Head(closed_clients)
    /\ UNCHANGED << state, in_use, pc, msg, reqs, kreason, sent, hublog, clients,
                    sockShut, freed, mpc, mi, run_mainloop, mainloop_running,
                    global_clients_lock, storeVars >>
    /\ UNCHANGED noteVars
    /\ sendres' = NoSend
    /\ UNCHANGED persistVars
    /\ UNCHANGED libVars
    /\ UNCHANGED wireVars
    /\ UNCHANGED boot

\* shutdown() and close() of the session's socket.
ShutdownSocket ==
    /\ rpc = "shut"
    /\ sockShut' = [sockShut EXCEPT ![rcur] = TRUE]
    /\ rpc' = "unlink"
    /\ UNCHANGED << state, closed_clients, in_use, pc, msg, reqs, kreason, sent,
                    hublog, clients, freed, rcur, mpc, mi, run_mainloop,
                    mainloop_running, global_clients_lock, storeVars >>
    /\ UNCHANGED noteVars
    /\ sendres' = NoSend
    /\ UNCHANGED persistVars
    /\ UNCHANGED libVars

\* The reaper closes the session's socket; descriptors are not followed.
ReaperShut == ShutdownSocket /\ UNCHANGED wireVars /\ UNCHANGED boot

\* close(client->sock) closes whatever connection is open at that number.
ReaperShutFd ==
    /\ ShutdownSocket
    /\ fdOwner' = [fdOwner EXCEPT ![sock[rcur]] = NULL]
    /\ UNCHANGED << sock, client_lock, wr >>
    /\ UNCHANGED boot

\* List_remove under the global clients lock.
ReaperUnlink ==
    /\ rpc = "unlink" /\ global_clients_lock = "free"
    /\ clients' = RemoveAt(clients, IndexOf(clients, rcur))
    /\ rpc' = "join"
    /\ UNCHANGED << state, closed_clients, in_use, pc, msg, reqs, kreason, sent,
                    hublog, sockShut, freed, rcur, mpc, mi, run_mainloop,
                    mainloop_running, global_clients_lock, storeVars >>
    /\ UNCHANGED noteVars
    /\ sendres' = NoSend
    /\ UNCHANGED persistVars
    /\ UNCHANGED libVars
    /\ UNCHANGED wireVars
    /\ UNCHANGED boot

\* pthread_join on the session thread.
ReaperJoin ==
    /\ rpc = "join" /\ pc[rcur] = "done"
    /\ rpc' = "unsub"
    /\ UNCHANGED << state, closed_clients, in_use, pc, msg, reqs, kreason, sent,
                    hublog, clients, sockShut, freed, rcur, mpc, mi, run_mainloop,
                    mainloop_running, global_clients_lock, storeVars >>
    /\ UNCHANGED noteVars
    /\ sendres' = NoSend
    /\ UNCHANGED persistVars
    /\ UNCHANGED libVars
    /\ UNCHANGED wireVars
    /\ UNCHANGED boot

\* ---------------------------------------------------- the variable store
\* pthread_rwlock_wrlock / rdlock on Hub_Var.lock can be taken now.
CanWrLock(x) == ~var_wlocked[x] /\ var_readers[x] = 0
CanRdLock(x) == ~var_wlocked[x]

\* Hub_Var_deleteSubscriber's return value for a defined variable.
DelCode(c, x) ==
    IF IndexOf(subscribers[x], c) = 0 THEN -1
    ELSE IF IndexOf(subscribed_vars[c], x) = 0 THEN -2
    ELSE 0

Range(s) == { s[i] : i \in 1..Len(s) }

\* Hub_Var_deleteSubscriber on a defined variable: the write lock is taken;
\* the first early return leaves it held.  (fan.before follows the list.)
Hub_Var_deleteSubscriber(c, x) ==
    /\ CanWrLock(x)
    /\ IF IndexOf(subscribers[x], c) = 0
       THEN /\ var_wlocked' = [var_wlocked EXCEPT ![x] = TRUE]
            /\ UNCHANGED << subscribers, subscribed_vars >>
       ELSE /\ subscribers' = [subscribers EXCEPT ![x] = RemoveAt(@, IndexOf(@, c))]
            /\ subscribed_vars' =
                   [subscribed_vars EXCEPT ![c] = RemoveAt(@, IndexOf(@, x))]
            /\ UNCHANGED var_wlocked
    /\ fan' = [d \in Clients |->
                  IF fan[d].name = x
                  THEN [fan[d] EXCEPT !.before = @ \cap Range(subscribers'[x])]
                  ELSE fan[d]]

\* Hub_Var_addSubscriber without the append to the session's own list.
Hub_Var_addSubscriber_VarOnly(c, x) ==
    /\ CanWrLock(x)
    /\ subscribers' = [subscribers EXCEPT ![x] = Append(@, c)]
    /\ UNCHANGED subscribed_vars

\* Hub_Var_addSubscriber on a defined variable.
Hub_Var_addSubscriber(c, x) ==
    /\ CanWrLock(x)
    /\ subscribers' = [subscribers EXCEPT ![x] = Append(@, c)]
    /\ subscribed_vars' = [subscribed_vars EXCEPT ![c] = Append(@, x)]

\* Reaper: drop the session's first subscription.
ReaperUnsub ==
    /\ rpc = "unsub" /\ subscribed_vars[rcur] # <<>>
    /\ Hub_Var_deleteSubscriber(rcur, Head(subscribed_vars[rcur]))
    /\ UNCHANGED << state, closed_clients, in_use, pc, msg, reqs, kreason, sent,
                    hublog, netVars, value, var_readers, do_flush_flag, lastSet >>
    /\ UNCHANGED noteVars
    /\ sendres' = NoSend
    /\ UNCHANGED persistVars
    /\ UNCHANGED libVars
    /\ UNCHANGED wireVars
    /\ UNCHANGED boot

\* Reaper: no subscription left; filters cleared.
ReaperClear ==
    /\ rpc = "unsub" /\ subscribed_vars[rcur] = <<>>
    /\ rpc' = "drain"
    /\ UNCHANGED << state, closed_clients, in_use, pc, msg, reqs, kreason, sent,
                    hublog, clients, sockShut, freed, rcur, mpc, mi, run_mainloop,
                    mainloop_running, global_clients_lock, storeVars >>
    /\ filters' = [filters EXCEPT ![rcur] = << >>]
    /\ UNCHANGED << bcast, notified >>
    /\ sendres' = NoSend
    /\ UNCHANGED persistVars
    /\ UNCHANGED libVars
    /\ UNCHANGED wireVars
    /\ UNCHANGED boot

\* Reaper: write lock on in_use once no reader holds it, then free().
ReaperFree ==
    /\ rpc = "drain" /\ in_use[rcur] = 0
    /\ freed' = [freed EXCEPT ![rcur] = TRUE]
    /\ rpc' = "pop"
    /\ UNCHANGED << state, closed_clients, in_use, pc, msg, reqs, kreason, sent,
                    hublog, clients, sockShut, rcur, mpc, mi, run_mainloop,
                    mainloop_running, global_clients_lock, storeVars >>
    /\ UNCHANGED noteVars
    /\ sendres' = NoSend
    /\ UNCHANGED persistVars
    /\ UNCHANGED libVars
    /\ UNCHANGED wireVars
    /\ UNCHANGED boot

\* ------------------------------------------------------------ conversions
\* atof on the value strings the peers send; 0.0 when no number is parsed.
\* Values are held as integers counting 10^-7.
Atof(str) ==
    CASE str = "2.75"      -> 27500000
      [] str = "3.0"       -> 30000000
      [] str = "3.0000004" -> 30000004
      [] str = "0.4999999" -> 4999999
      [] OTHER             -> 0

\* atoi on a LOG level string.
Atoi(str) ==
    CASE str = "0" -> 0 [] str = "1" -> 1 [] str = "2" -> 2
      [] str = "3" -> 3 [] str = "4" -> 4 [] str = "5" -> 5
      [] OTHER -> 0

Pad6(n) ==
    IF n < 10 THEN "00000" \o ToString(n)
    ELSE IF n < 100 THEN "0000" \o ToString(n)
    ELSE IF n < 1000 THEN "000" \o ToString(n)
    ELSE IF n < 10000 THEN "00" \o ToString(n)
    ELSE IF n < 100000 THEN "0" \o ToString(n)
    ELSE ToString(n)

\* printf "%f" of a non-negative value: rounded to six decimals.
FormatF(v) ==
    LET q == (v + 5) \div 10
    IN  ToString(q \div 1000000) \o "." \o Pad6(q % 1000000)

\* Util_format of the kick reasons.
InvalidAccess(name) == "Invalid variable access (" \o name \o ")"
InvalidSubscribe(name) == "Subscribing to invalid variable (" \o name \o ")"
InvalidUnsubscribe(name) == "Unsubscribing to invalid variable (" \o name \o ")"

\* ---------------------------------------------------- the session threads
\* Hub_Net_clientThread after a handler returned: the message is destroyed and
\* the loop test reads the session's state (st).  The test is taken in the
\* handler's last step: a session closed by another thread between that step
\* and the test ends its thread either way, here through RecvError.
Resume(st) == IF st = "CLOSED" THEN "done" ELSE "recv"

\* Hub_Net_receiveMessage returns a frame of F, unpacked.
Receive(c, F) ==
    /\ pc[c] = "recv" /\ ~sockShut[c] /\ reqs[c] < MaxReq
    /\ \E f \in F : \E m \in Comm_unpackMessage(f) :
           msg' = [msg EXCEPT ![c] = [rid |-> m.rid, count |-> m.count,
                                      comps |-> m.comps, wf |-> WellFormed(f)]]
    /\ reqs' = [reqs EXCEPT ![c] = @ + 1]
    /\ sent' = [sent EXCEPT ![c] = << >>]
    /\ fan' = [fan EXCEPT ![c] = NoFan]
    /\ pc' = [pc EXCEPT ![c] = "process"]
    /\ UNCHANGED << state, closed_clients, in_use, kreason, hublog, netVars,
                    value, subscribers, subscribed_vars, var_wlocked, var_readers,
                    do_flush_flag, lastSet >>
    /\ UNCHANGED noteVars
    /\ sendres' = NoSend
    /\ UNCHANGED persistVars
    /\ UNCHANGED libVars
    /\ UNCHANGED wireVars
    /\ UNCHANGED boot

\* recv fails or reads end-of-file (the peer went away, or the reaper shut
\* the socket down): receive_error marks the session closed and the loop ends.
RecvError(c) ==
    /\ pc[c] = "recv"
    /\ Hub_Net_markClientClosed(c)
    /\ pc' = [pc EXCEPT ![c] = "done"]
    /\ UNCHANGED << in_use, msg, reqs, kreason, sent, hublog, netVars, storeVars >>
    /\ UNCHANGED noteVars
    /\ sendres' = NoSend
    /\ UNCHANGED persistVars
    /\ UNCHANGED libVars
    /\ UNCHANGED wireVars
    /\ UNCHANGED boot

\* Hub_Process_process, count = 0: kick "Illegal message".
ProcEmpty(c) ==
    /\ pc[c] = "process" /\ Route(msg[c], state[c]) = "empty"
    /\ kreason' = [kreason EXCEPT ![c] = "Illegal message"]
    /\ pc' = [pc EXCEPT ![c] = "kick"]
    /\ UNCHANGED << state, closed_clients, in_use, msg, reqs, sent, hublog, netVars,
                    storeVars >>
    /\ UNCHANGED noteVars
    /\ sendres' = NoSend
    /\ UNCHANGED persistVars
    /\ UNCHANGED libVars
    /\ UNCHANGED wireVars
    /\ UNCHANGED boot

\* Hub_Process_process returns -1 and Hub_Net_clientThread drops the result.
ProcReject(c) ==
    /\ pc[c] = "process" /\ Route(msg[c], state[c]) = "reject"
    /\ msg' = [msg EXCEPT ![c] = NoMsg]
    /\ pc' = [pc EXCEPT ![c] = Resume(state[c])]
    /\ UNCHANGED << state, closed_clients, in_use, reqs, kreason, sent, hublog,
                    netVars, storeVars >>
    /\ UNCHANGED noteVars
    /\ sendres' = NoSend
    /\ UNCHANGED persistVars
    /\ UNCHANGED libVars
    /\ UNCHANGED wireVars
    /\ UNCHANGED boot

\* Hub_Process_comm, AUTH: the response is sent, then the branch continues.
ProcAuth(c) ==
    /\ pc[c] = "process" /\ Route(msg[c], state[c]) = "auth"
    /\ LET good == msg[c].comps[3] = Password
       IN  /\ Hub_Net_sendMessage(c, msg[c].rid,
                   << "COMM", IF good THEN "SUCCESS" ELSE "FAILURE" >>)
           /\ kreason' = [kreason EXCEPT ![c] =
                             IF good THEN @ ELSE "Authentication failure"]
           /\ pc' = [pc EXCEPT ![c] = IF good THEN "auth_set" ELSE "kick"]
    /\ UNCHANGED << state, closed_clients, in_use, msg, reqs, hublog, netVars,
                    storeVars >>
    /\ UNCHANGED noteVars
    /\ UNCHANGED persistVars
    /\ UNCHANGED libVars
    /\ UNCHANGED wireVars
    /\ UNCHANGED boot

\* Hub_Process_comm, AUTH accepted, with the state assignment left out.
AuthSet_Dropped(c) ==
    /\ pc[c] = "auth_set"
    /\ msg' = [msg EXCEPT ![c] = NoMsg]
    /\ pc' = [pc EXCEPT ![c] = Resume(state[c])]
    /\ UNCHANGED << state, closed_clients, in_use, reqs, kreason, sent, hublog,
                    netVars, storeVars >>
    /\ UNCHANGED noteVars
    /\ sendres' = NoSend
    /\ UNCHANGED persistVars
    /\ UNCHANGED libVars
    /\ UNCHANGED wireVars
    /\ UNCHANGED boot

\* Hub_Process_comm, AUTH accepted: client->state = CONNECTED.
AuthSet(c) ==
    /\ pc[c] = "auth_set"
    /\ state' = [state EXCEPT ![c] = "CONNECTED"]
    /\ msg' = [msg EXCEPT ![c] = NoMsg]
    /\ pc' = [pc EXCEPT ![c] = Resume(state'[c])]
    /\ UNCHANGED << closed_clients, in_use, reqs, kreason, sent, hublog, netVars,
                    storeVars >>
    /\ UNCHANGED noteVars
    /\ sendres' = NoSend
    /\ UNCHANGED persistVars
    /\ UNCHANGED libVars
    /\ UNCHANGED wireVars
    /\ UNCHANGED boot

\* Hub_Client_close, first half: COMM CLOSING, request id of a new message.
ProcShutdown(c) ==
    /\ pc[c] = "process" /\ Route(msg[c], state[c]) = "shutdown"
    /\ Hub_Net_sendMessage(c, 0, << "COMM", "CLOSING" >>)
    /\ pc' = [pc EXCEPT ![c] = "close_mark"]
    /\ UNCHANGED << state, closed_clients, in_use, msg, reqs, kreason, hublog,
                    netVars, storeVars >>
    /\ UNCHANGED noteVars
    /\ UNCHANGED persistVars
    /\ UNCHANGED libVars
    /\ UNCHANGED wireVars
    /\ UNCHANGED boot

\* Hub_Client_close, second half: mark closed.
CloseMark(c) ==
    /\ pc[c] = "close_mark"
    /\ Hub_Net_markClientClosed(c)
    /\ msg' = [msg EXCEPT ![c] = NoMsg]
    /\ pc' = [pc EXCEPT ![c] = Resume(state'[c])]
    /\ UNCHANGED << in_use, reqs, kreason, sent, hublog, netVars, storeVars >>
    /\ UNCHANGED noteVars
    /\ sendres' = NoSend
    /\ UNCHANGED persistVars
    /\ UNCHANGED libVars
    /\ UNCHANGED wireVars
    /\ UNCHANGED boot

\* Hub_Client_kick, first half: in_use read lock, then mark closed.
Kick(c) ==
    /\ pc[c] = "kick"
    /\ in_use' = [in_use EXCEPT ![c] = @ + 1]
    /\ Hub_Net_markClientClosed(c)
    /\ pc' = [pc EXCEPT ![c] = "kick_send"]
    /\ UNCHANGED << msg, reqs, kreason, sent, hublog, netVars, storeVars >>
    /\ UNCHANGED noteVars
    /\ sendres' = NoSend
    /\ UNCHANGED persistVars
    /\ UNCHANGED libVars
    /\ UNCHANGED wireVars
    /\ UNCHANGED boot

\* Hub_Client_kick, second half: send COMM KICKING, release in_use.
KickSend(c) ==
    /\ pc[c] = "kick_send"
    /\ Hub_Net_sendMessage(c, 0, << "COMM", "KICKING", kreason[c] >>)
    /\ in_use' = [in_use EXCEPT ![c] = @ - 1]
    /\ kreason' = [kreason EXCEPT ![c] = ""]
    /\ msg' = [msg EXCEPT ![c] = NoMsg]
    /\ pc' = [pc EXCEPT ![c] = Resume(state[c])]
    /\ UNCHANGED << state, closed_clients, reqs, hublog, netVars, storeVars >>
    /\ UNCHANGED noteVars
    /\ UNCHANGED persistVars
    /\ UNCHANGED libVars
    /\ UNCHANGED wireVars
    /\ UNCHANGED boot

\* The log levels, in the order of level_names, and the minimum level of
\* the default configuration ("log_level" = "NORMAL").
INFO == 1
NORMAL == 2
ERROR == 4
min_log_level == NORMAL

\* Hub_Logging_logWithName writes the line; Hub_Logging_log writes the hub's
\* own line if its level reaches the minimum.
Hub_Logging_logWithName(app, level, text) ==
    hublog' = hublog \cup { [app |-> app, level |-> level, text |-> text] }
Hub_Logging_log(level, text) ==
    IF level >= min_log_level
    THEN Hub_Logging_logWithName("Hub", level, text)
    ELSE hublog' = hublog

\* Hub_Process_log: the line is handed to Hub_Logging_logWithName.
ProcLog(c) ==
    /\ pc[c] = "process" /\ Route(msg[c], state[c]) = "log"
    /\ Hub_Logging_logWithName(msg[c].comps[2], Atoi(msg[c].comps[3]),
                               msg[c].comps[4])
    /\ msg' = [msg EXCEPT ![c] = NoMsg]
    /\ pc' = [pc EXCEPT ![c] = Resume(state[c])]
    /\ UNCHANGED << state, closed_clients, in_use, reqs, kreason, sent, netVars,
                    storeVars >>
    /\ UNCHANGED noteVars
    /\ sendres' = NoSend
    /\ UNCHANGED persistVars
    /\ UNCHANGED libVars
    /\ UNCHANGED wireVars
    /\ UNCHANGED boot

\* ------------------------------------------- variable and watch requests
\* Hub_Var_setValue's return value with the read-only test left out.
SetCode_NoReadonly(x) ==
    IF x \notin VarNames THEN -1 ELSE 0

\* Hub_Var_setValue's return value: -1 unknown variable, -2 read-only.
SetCode(x) ==
    IF x \notin VarNames THEN -1
    ELSE IF VarDefs[x].readonly THEN -2
    ELSE 0

\* Hub_Process_var, GET: unknown variable -> kick; else the response is built
\* under the variable's read lock.
ProcVarGet(c) ==
    /\ pc[c] = "process" /\ Route(msg[c], state[c]) = "var_get"
    /\ LET x == msg[c].comps[3]
       IN  IF x \notin VarNames
           THEN /\ kreason' = [kreason EXCEPT ![c] = InvalidAccess(x)]
                /\ pc' = [pc EXCEPT ![c] = "kick"]
                /\ UNCHANGED fan
           ELSE /\ CanRdLock(x)
                /\ fan' = [fan EXCEPT ![c] =
                              [NoFan EXCEPT !.name = x, !.str = FormatF(value[x])]]
                /\ pc' = [pc EXCEPT ![c] = "get_send"]
                /\ UNCHANGED kreason
    /\ UNCHANGED << state, closed_clients, in_use, msg, reqs, sent, hublog, netVars,
                    value, subscribers, subscribed_vars, var_wlocked, var_readers,
                    do_flush_flag, lastSet >>
    /\ UNCHANGED noteVars
    /\ sendres' = NoSend
    /\ UNCHANGED persistVars
    /\ UNCHANGED libVars
    /\ UNCHANGED wireVars
    /\ UNCHANGED boot

\* Hub_Process_var, GET: the VAR VALUE response is sent.
GetSend(c) ==
    /\ pc[c] = "get_send"
    /\ Hub_Net_sendMessage(c, msg[c].rid,
           << "VAR", "VALUE",
              IF VarDefs[fan[c].name].readonly THEN "RO" ELSE "RW", fan[c].str >>)
    /\ fan' = [fan EXCEPT ![c] = NoFan]
    /\ msg' = [msg EXCEPT ![c] = NoMsg]
    /\ pc' = [pc EXCEPT ![c] = Resume(state[c])]
    /\ UNCHANGED << state, closed_clients, in_use, reqs, kreason, hublog, netVars,
                    value, subscribers, subscribed_vars, var_wlocked, var_readers,
                    do_flush_flag, lastSet >>
    /\ UNCHANGED noteVars
    /\ UNCHANGED persistVars
    /\ UNCHANGED libVars
    /\ UNCHANGED wireVars
    /\ UNCHANGED boot

\* Hub_Process_var, SET, and Hub_Var_setValue's write: an error code -> kick;
\* else the value is written under the write lock and, for a persistent
\* variable, Hub_Var_flushPersistent sets the flag and signals the condition,
\* which wakes the persistence writer if it waits on it.
\* The writer is between fopen and rename.
InPass == fpc \in { "open", "write", "rename" }

\* History of a flush signal: a SET that finds the writer idle and the flag
\* clear opens a burst; a SET during the second pass of a burst opens a new
\* burst of which that pass is the first; any other SET joins the burst.
BurstAtSet ==
    IF InPass THEN (IF passes >= 2 THEN 1 ELSE passes)
    ELSE IF do_flush_flag = 0 THEN 0 ELSE passes

ProcVarSet(c) ==
    /\ pc[c] = "process" /\ Route(msg[c], state[c]) = "var_set"
    /\ LET x == msg[c].comps[3]
           v == Atof(msg[c].comps[4])
       IN  IF SetCode(x) # 0
           THEN /\ kreason' = [kreason EXCEPT ![c] = InvalidAccess(x)]
                /\ pc' = [pc EXCEPT ![c] = "kick"]
                /\ UNCHANGED << value, do_flush_flag, lastSet, fan, fpc, passes >>
           ELSE /\ CanWrLock(x)
                /\ passes' = IF VarDefs[x].persistent THEN BurstAtSet ELSE passes
                /\ value' = [value EXCEPT ![x] = v]
                /\ lastSet' = [lastSet EXCEPT ![x] = msg[c].comps[4]]
                /\ do_flush_flag' = IF VarDefs[x].persistent THEN 1 ELSE do_flush_flag
                /\ fpc' = IF VarDefs[x].persistent /\ fpc = "waiting"
                          THEN "test" ELSE fpc
                /\ fan' = [fan EXCEPT ![c] =
                              [NoFan EXCEPT !.name = x,
                                            !.before = Range(subscribers[x])]]
                /\ pc' = [pc EXCEPT ![c] = "set_size"]
                /\ UNCHANGED kreason
    /\ UNCHANGED << state, closed_clients, in_use, msg, reqs, sent, hublog, netVars,
                    subscribers, subscribed_vars, var_wlocked, var_readers >>
    /\ UNCHANGED noteVars
    /\ sendres' = NoSend
    /\ UNCHANGED << tmp_db, db, iofailed, cpc, atSignal >>
    /\ UNCHANGED libVars
    /\ UNCHANGED wireVars
    /\ UNCHANGED boot

\* Hub_Var_setValue: the subscriber count is read without the lock; with no
\* subscriber the function returns 0.
SetSize(c) ==
    /\ pc[c] = "set_size"
    /\ IF Len(subscribers[fan[c].name]) = 0
       THEN /\ msg' = [msg EXCEPT ![c] = NoMsg]
            /\ pc' = [pc EXCEPT ![c] = Resume(state[c])]
       ELSE /\ pc' = [pc EXCEPT ![c] = "set_fan"]
            /\ UNCHANGED msg
    /\ UNCHANGED << state, closed_clients, in_use, reqs, kreason, sent, hublog,
                    netVars, storeVars >>
    /\ UNCHANGED noteVars
    /\ sendres' = NoSend
    /\ UNCHANGED persistVars
    /\ UNCHANGED libVars
    /\ UNCHANGED wireVars
    /\ UNCHANGED boot

\* Hub_Var_setValue: read lock, the value is formatted for the WATCH frame.
SetFan(c) ==
    /\ pc[c] = "set_fan"
    /\ CanRdLock(fan[c].name)
    /\ var_readers' = [var_readers EXCEPT ![fan[c].name] = @ + 1]
    /\ fan' = [fan EXCEPT ![c].str = FormatF(value[fan[c].name]), ![c].i = 1]
    /\ pc' = [pc EXCEPT ![c] = "set_send"]
    /\ UNCHANGED << state, closed_clients, in_use, msg, reqs, kreason, sent, hublog,
                    netVars, value, subscribers, subscribed_vars, var_wlocked,
                    do_flush_flag, lastSet >>
    /\ UNCHANGED noteVars
    /\ sendres' = NoSend
    /\ UNCHANGED persistVars
    /\ UNCHANGED libVars
    /\ UNCHANGED wireVars
    /\ UNCHANGED boot

\* Hub_Var_setValue sending each WATCH frame to the session that set the value.
SetSend_ToSetter(c) ==
    /\ pc[c] = "set_send" /\ fan[c].i <= Len(subscribers[fan[c].name])
    /\ Hub_Net_sendMessage(c, 0, << "WATCH", fan[c].name, fan[c].str >>)
    /\ fan' = [fan EXCEPT ![c].i = @ + 1, ![c].to = Append(@, c)]
    /\ UNCHANGED << state, closed_clients, in_use, pc, msg, reqs, kreason, hublog,
                    netVars, value, subscribers, subscribed_vars, var_wlocked,
                    var_readers, do_flush_flag, lastSet >>
    /\ UNCHANGED noteVars
    /\ UNCHANGED persistVars
    /\ UNCHANGED libVars
    /\ UNCHANGED wireVars
    /\ UNCHANGED boot

\* Hub_Var_setValue: the packed WATCH frame goes to the next subscriber.
SetSend(c) ==
    /\ pc[c] = "set_send" /\ fan[c].i <= Len(subscribers[fan[c].name])
    /\ Hub_Net_sendMessage(subscribers[fan[c].name][fan[c].i], 0,
                           << "WATCH", fan[c].name, fan[c].str >>)
    /\ fan' = [fan EXCEPT ![c].i = @ + 1,
                          ![c].to = Append(@, subscribers[fan[c].name][fan[c].i])]
    /\ UNCHANGED << state, closed_clients, in_use, pc, msg, reqs, kreason, hublog,
                    netVars, value, subscribers, subscribed_vars, var_wlocked,
                    var_readers, do_flush_flag, lastSet >>
    /\ UNCHANGED noteVars
    /\ UNCHANGED persistVars
    /\ UNCHANGED libVars
    /\ UNCHANGED wireVars
    /\ UNCHANGED boot

\* Hub_Var_setValue: List_get returned NULL; unlock and return 0.
SetFanDone(c) ==
    /\ pc[c] = "set_send" /\ fan[c].i > Len(subscribers[fan[c].name])
    /\ var_readers' = [var_readers EXCEPT ![fan[c].name] = @ - 1]
    /\ msg' = [msg EXCEPT ![c] = NoMsg]
    /\ pc' = [pc EXCEPT ![c] = Resume(state[c])]
    /\ UNCHANGED << state, closed_clients, in_use, reqs, kreason, sent, hublog,
                    netVars, value, subscribers, subscribed_vars, var_wlocked,
                    do_flush_flag, fan, lastSet >>
    /\ UNCHANGED noteVars
    /\ sendres' = NoSend
    /\ UNCHANGED persistVars
    /\ UNCHANGED libVars
    /\ UNCHANGED wireVars
    /\ UNCHANGED boot

\* Hub_Process_watch, ADD.
ProcWatchAdd(c) ==
    /\ pc[c] = "process" /\ Route(msg[c], state[c]) = "watch_add"
    /\ LET x == msg[c].comps[3]
       IN  IF x \notin VarNames
           THEN /\ kreason' = [kreason EXCEPT ![c] = InvalidSubscribe(x)]
                /\ pc' = [pc EXCEPT ![c] = "kick"]
                /\ UNCHANGED << subscribers, subscribed_vars, msg >>
           ELSE /\ Hub_Var_addSubscriber(c, x)
                /\ msg' = [msg EXCEPT ![c] = NoMsg]
                /\ pc' = [pc EXCEPT ![c] = Resume(state[c])]
                /\ UNCHANGED kreason
    /\ UNCHANGED << state, closed_clients, in_use, reqs, sent, hublog, netVars,
                    value, var_wlocked, var_readers, do_flush_flag, fan, lastSet >>
    /\ UNCHANGED noteVars
    /\ sendres' = NoSend
    /\ UNCHANGED persistVars
    /\ UNCHANGED libVars
    /\ UNCHANGED wireVars
    /\ UNCHANGED boot

\* Hub_Process_watch, DEL, with -1 dropped for an unknown variable.
ProcWatchDel_Tolerant(c) ==
    /\ pc[c] = "process" /\ Route(msg[c], state[c]) = "watch_del"
    /\ LET x == msg[c].comps[3]
       IN  IF x \notin VarNames
           THEN /\ msg' = [msg EXCEPT ![c] = NoMsg]
                /\ pc' = [pc EXCEPT ![c] = Resume(state[c])]
                /\ UNCHANGED << subscribers, subscribed_vars, var_wlocked, fan,
                                kreason >>
           ELSE /\ Hub_Var_deleteSubscriber(c, x)
                /\ IF DelCode(c, x) = -1
                   THEN /\ kreason' = [kreason EXCEPT ![c] = InvalidUnsubscribe(x)]
                        /\ pc' = [pc EXCEPT ![c] = "kick"]
                        /\ UNCHANGED msg
                   ELSE /\ msg' = [msg EXCEPT ![c] = NoMsg]
                        /\ pc' = [pc EXCEPT ![c] = Resume(state[c])]
                        /\ UNCHANGED kreason
    /\ UNCHANGED << state, closed_clients, in_use, reqs, sent, hublog, netVars,
                    value, var_readers, do_flush_flag, lastSet >>
    /\ UNCHANGED noteVars
    /\ sendres' = NoSend
    /\ UNCHANGED persistVars
    /\ UNCHANGED libVars
    /\ UNCHANGED wireVars
    /\ UNCHANGED boot

\* Hub_Process_watch, DEL: -1 from Hub_Var_deleteSubscriber -> kick.
ProcWatchDel(c) ==
    /\ pc[c] = "process" /\ Route(msg[c], state[c]) = "watch_del"
    /\ LET x == msg[c].comps[3]
       IN  IF x \notin VarNames
           THEN /\ kreason' = [kreason EXCEPT ![c] = InvalidUnsubscribe(x)]
                /\ pc' = [pc EXCEPT ![c] = "kick"]
                /\ UNCHANGED << subscribers, subscribed_vars, var_wlocked, fan,
                                msg >>
           ELSE /\ Hub_Var_deleteSubscriber(c, x)
                /\ IF DelCode(c, x) = -1
                   THEN /\ kreason' = [kreason EXCEPT ![c] = InvalidUnsubscribe(x)]
                        /\ pc' = [pc EXCEPT ![c] = "kick"]
                        /\ UNCHANGED msg
                   ELSE /\ msg' = [msg EXCEPT ![c] = NoMsg]
                        /\ pc' = [pc EXCEPT ![c] = Resume(state[c])]
                        /\ UNCHANGED kreason
    /\ UNCHANGED << state, closed_clients, in_use, reqs, sent, hublog, netVars,
                    value, var_readers, do_flush_flag, lastSet >>
    /\ UNCHANGED noteVars
    /\ sendres' = NoSend
    /\ UNCHANGED persistVars
    /\ UNCHANGED libVars
    /\ UNCHANGED wireVars
    /\ UNCHANGED boot

\* ------------------------------------------------------- notifications
\* Notify_FilterType.
FILTER_MATCH == 1
FILTER_ACTION == 2
FILTER_PREFIX == 3

\* The characters of the texts used as filter texts and notification bodies.
Chars(str) ==
    CASE str = "ALARM"     -> << "A", "L", "A", "R", "M" >>
      [] str = "ALARM hot" -> << "A", "L", "A", "R", "M", " ", "h", "o", "t" >>
      [] str = "ALARMIST"  -> << "A", "L", "A", "R", "M", "I", "S", "T" >>
      [] OTHER             -> << >>

\* strcmp(a, b) == 0.
StrEq(a, b) == Chars(a) = Chars(b)

\* strncmp(b, f, strlen(f)) == 0.
StrnEq(b, f) ==
    /\ Len(Chars(f)) <= Len(Chars(b))
    /\ SubSeq(Chars(b), 1, Len(Chars(f))) = Chars(f)

\* The FILTER_PREFIX loop of Hub_Client_checkFilters from index j (0-based)
\* on, r being the result so far: B the body, F the filter text.  At
\* j = strlen(F) the filter's terminator is read: a space in the body sets r
\* to false and the loop goes on, anything else ends it.  Beyond that the
\* loop reads past the filter's allocation; zero says whether such a byte
\* reads as 0.
RECURSIVE PrefixLoop(_, _, _, _, _)
PrefixLoop(B, F, j, r, zero) ==
    IF j >= Len(B) THEN r
    ELSE IF j < Len(F) THEN PrefixLoop(B, F, j + 1, r, zero)
    ELSE IF j = Len(F) \/ zero
         THEN IF B[j + 1] = " " THEN PrefixLoop(B, F, j + 1, FALSE, zero)
              ELSE r
         ELSE PrefixLoop(B, F, j + 1, r, zero)

\* One filter's case of the switch in Hub_Client_checkFilters.
FilterCase(f, body, r, zero) ==
    IF f.type = FILTER_MATCH THEN (IF StrEq(body, f.text) THEN TRUE ELSE r)
    ELSE IF f.type = FILTER_PREFIX
         THEN PrefixLoop(Chars(body), Chars(f.text), 0, r, zero)
    ELSE IF f.type = FILTER_ACTION THEN (IF StrnEq(body, f.text) THEN TRUE ELSE r)
    ELSE r

\* Hub_Client_checkFilters over the filter list fs from its k-th filter on.
RECURSIVE CheckFrom(_, _, _, _, _)
CheckFrom(fs, k, body, r, zero) ==
    IF k > Len(fs) THEN r
    ELSE CheckFrom(fs, k + 1, body, FilterCase(fs[k], body, r, zero), zero)

Hub_Client_checkFilters(fs, body, zero) == CheckFrom(fs, 1, body, FALSE, zero)

\* Hub_Process_notify, ADD_FILTER: Hub_Client_addFilter.
ProcAddFilter(c) ==
    /\ pc[c] = "process" /\ Route(msg[c], state[c]) = "add_filter"
    /\ filters' = [filters EXCEPT ![c] =
                      Append(@, [type |-> Atoi(msg[c].comps[3]),
                                 text |-> msg[c].comps[4]])]
    /\ msg' = [msg EXCEPT ![c] = NoMsg]
    /\ pc' = [pc EXCEPT ![c] = Resume(state[c])]
    /\ UNCHANGED << state, closed_clients, in_use, reqs, kreason, sent, hublog,
                    netVars, storeVars, bcast, notified >>
    /\ sendres' = NoSend
    /\ UNCHANGED persistVars
    /\ UNCHANGED libVars
    /\ UNCHANGED wireVars
    /\ UNCHANGED boot

\* Hub_Process_notify, CLEAR_FILTERS: Hub_Client_clearFilters.
ProcClearFilters(c) ==
    /\ pc[c] = "process" /\ Route(msg[c], state[c]) = "clear_filters"
    /\ filters' = [filters EXCEPT ![c] = << >>]
    /\ msg' = [msg EXCEPT ![c] = NoMsg]
    /\ pc' = [pc EXCEPT ![c] = Resume(state[c])]
    /\ UNCHANGED << state, closed_clients, in_use, reqs, kreason, sent, hublog,
                    netVars, storeVars, bcast, notified >>
    /\ sendres' = NoSend
    /\ UNCHANGED persistVars
    /\ UNCHANGED libVars
    /\ UNCHANGED wireVars
    /\ UNCHANGED boot

\* Hub_Process_notify, OUT: Hub_Net_broadcastNotification takes the global
\* clients lock.
ProcNotifyOut(c) ==
    /\ pc[c] = "process" /\ Route(msg[c], state[c]) = "notify_out"
    /\ global_clients_lock = "free"
    /\ global_clients_lock' = "bcast"
    /\ bcast' = [bcast EXCEPT ![c] = [NoBcast EXCEPT !.body = msg[c].comps[3],
                                                      !.n = reqs[c],
                                                      !.i = 1]]
    /\ pc' = [pc EXCEPT ![c] = "bcast_check"]
    /\ UNCHANGED << state, closed_clients, in_use, msg, reqs, kreason, sent, hublog,
                    clients, sockShut, freed, rpc, rcur, mpc, mi, run_mainloop,
                    mainloop_running, storeVars, filters, notified >>
    /\ sendres' = NoSend
    /\ UNCHANGED persistVars
    /\ UNCHANGED libVars
    /\ UNCHANGED wireVars
    /\ UNCHANGED boot

\* The selection loop without the test of the session's state.
BcastCheck_AnyState(c) ==
    /\ pc[c] = "bcast_check" /\ bcast[c].i <= Len(clients)
    /\ LET d == clients[bcast[c].i]
       IN  \E zero \in BOOLEAN :
             IF Hub_Client_checkFilters(filters[d], bcast[c].body, zero)
             THEN /\ in_use' = [in_use EXCEPT ![d] = @ + 1]
                  /\ bcast' = [bcast EXCEPT ![c].i = @ + 1,
                                            ![c].send_to = Append(@, d)]
             ELSE /\ bcast' = [bcast EXCEPT ![c].i = @ + 1]
                  /\ UNCHANGED in_use
    /\ UNCHANGED << state, closed_clients, pc, msg, reqs, kreason, sent, hublog,
                    netVars, storeVars, filters, notified >>
    /\ sendres' = NoSend
    /\ UNCHANGED persistVars
    /\ UNCHANGED libVars
    /\ UNCHANGED wireVars
    /\ UNCHANGED boot

\* The selection loop, one session: a CONNECTED session is read-locked
\* (in_use) and its filters are checked; it is kept locked if they accept.
BcastCheck(c) ==
    /\ pc[c] = "bcast_check" /\ bcast[c].i <= Len(clients)
    /\ LET d == clients[bcast[c].i]
       IN  \E zero \in BOOLEAN :
             IF state[d] = "CONNECTED"
                /\ Hub_Client_checkFilters(filters[d], bcast[c].body, zero)
             THEN /\ in_use' = [in_use EXCEPT ![d] = @ + 1]
                  /\ bcast' = [bcast EXCEPT ![c].i = @ + 1,
                                            ![c].send_to = Append(@, d)]
             ELSE /\ bcast' = [bcast EXCEPT ![c].i = @ + 1]
                  /\ UNCHANGED in_use
    /\ UNCHANGED << state, closed_clients, pc, msg, reqs, kreason, sent, hublog,
                    netVars, storeVars, filters, notified >>
    /\ sendres' = NoSend
    /\ UNCHANGED persistVars
    /\ UNCHANGED libVars
    /\ UNCHANGED wireVars
    /\ UNCHANGED boot

\* End of the selection loop: the global clients lock is released.
BcastUnlock(c) ==
    /\ pc[c] = "bcast_check" /\ bcast[c].i > Len(clients)
    /\ global_clients_lock' = "free"
    /\ bcast' = [bcast EXCEPT ![c].j = 1]
    /\ pc' = [pc EXCEPT ![c] = "bcast_send"]
    /\ UNCHANGED << state, closed_clients, in_use, msg, reqs, kreason, sent, hublog,
                    clients, sockShut, freed, rpc, rcur, mpc, mi, run_mainloop,
                    mainloop_running, storeVars, filters, notified >>
    /\ sendres' = NoSend
    /\ UNCHANGED persistVars
    /\ UNCHANGED libVars
    /\ UNCHANGED wireVars
    /\ UNCHANGED boot

\* The send loop without its increment: the frame is sent to the same
\* session again.
BcastSend_Repeat(c) ==
    /\ pc[c] = "bcast_send" /\ bcast[c].j <= Len(bcast[c].send_to)
    /\ LET d == bcast[c].send_to[bcast[c].j]
       IN  /\ \E n \in SendResults :
                /\ Hub_Net_sendPackedMessage(d, 0, << "NOTIFY", "IN", bcast[c].body >>, n)
                /\ IF n < 0 THEN Hub_Net_markClientClosed(d)
                   ELSE UNCHANGED << state, closed_clients >>
           /\ notified' = [notified EXCEPT ![d][c] = bcast[c].n]
    /\ UNCHANGED << pc, msg, reqs, kreason, hublog, netVars, storeVars, filters,
                    in_use, bcast >>
    /\ UNCHANGED persistVars
    /\ UNCHANGED libVars
    /\ UNCHANGED wireVars
    /\ UNCHANGED boot

\* The send loop, one session of send_to: NOTIFY IN is sent; a negative
\* result marks the session closed; in_use is released.
BcastSend(c) ==
    /\ pc[c] = "bcast_send" /\ bcast[c].j <= Len(bcast[c].send_to)
    /\ LET d == bcast[c].send_to[bcast[c].j]
       IN  /\ \E n \in SendResults :
                /\ Hub_Net_sendPackedMessage(d, 0, << "NOTIFY", "IN", bcast[c].body >>, n)
                /\ IF n < 0 THEN Hub_Net_markClientClosed(d)
                   ELSE UNCHANGED << state, closed_clients >>
           /\ in_use' = [in_use EXCEPT ![d] = @ - 1]
           /\ notified' = [notified EXCEPT ![d][c] = bcast[c].n]
    /\ bcast' = [bcast EXCEPT ![c].j = @ + 1]
    /\ UNCHANGED << pc, msg, reqs, kreason, hublog, netVars, storeVars, filters >>
    /\ UNCHANGED persistVars
    /\ UNCHANGED libVars
    /\ UNCHANGED wireVars
    /\ UNCHANGED boot

\* End of the send loop: the handler returns 0.
BcastDone(c) ==
    /\ pc[c] = "bcast_send" /\ bcast[c].j > Len(bcast[c].send_to)
    /\ bcast' = [bcast EXCEPT ![c] = NoBcast]
    /\ msg' = [msg EXCEPT ![c] = NoMsg]
    /\ pc' = [pc EXCEPT ![c] = Resume(state[c])]
    /\ UNCHANGED << state, closed_clients, in_use, reqs, kreason, sent, hublog,
                    netVars, storeVars, filters, notified >>
    /\ sendres' = NoSend
    /\ UNCHANGED persistVars
    /\ UNCHANGED libVars
    /\ UNCHANGED wireVars
    /\ UNCHANGED boot

\* --------------------------------------------------------- specifications
\* The threads of the connection manager: main, reaper, shutdown signal.
NetNext ==
    \/ \E c \in Clients : Accept(c)
    \/ PreClose \/ MainBreak \/ MainKickMark \/ MainKickSend \/ MainSentinel
    \/ MainDone
    \/ ReaperPop \/ ReaperShut \/ ReaperUnlink \/ ReaperJoin \/ ReaperClear
    \/ ReaperFree

\* The session threads on frames of the session protocol.
SessionNext ==
    \E c \in Clients :
        \/ Receive(c, SessionFrames) \/ RecvError(c)
        \/ ProcEmpty(c) \/ ProcReject(c) \/ ProcAuth(c) \/ AuthSet(c)
        \/ ProcShutdown(c) \/ CloseMark(c) \/ Kick(c) \/ KickSend(c) \/ ProcLog(c)

NextSession == NetNext \/ SessionNext
SpecSession == Init /\ [][NextSession]_vars

\* The hub's shutdown: connections, AUTH and SHUTDOWN requests, the shutdown
\* signal, the kick loop and the reaper.
ShutdownFrames == { F_AuthOk, F_AuthBad, F_Shutdown }

\* The steps a session thread takes without input of its peer; recv fails
\* once the reaper has shut the socket down.
ThreadSteps(c) ==
    \/ RecvError(c) /\ sockShut[c]
    \/ ProcAuth(c) \/ AuthSet(c) \/ ProcShutdown(c) \/ CloseMark(c)
    \/ Kick(c) \/ KickSend(c)

\* The steps of the main thread past its accept loop, and the reaper's.
MainSteps == MainKickMark \/ MainKickSend \/ MainSentinel \/ MainDone
ReaperSteps ==
    \/ ReaperPop \/ ReaperShut \/ ReaperUnlink \/ ReaperJoin \/ ReaperClear
    \/ ReaperFree

NextShutdown ==
    \/ NetNext
    \/ \E c \in Clients :
          \/ Receive(c, ShutdownFrames) \/ RecvError(c)
          \/ ProcAuth(c) \/ AuthSet(c) \/ ProcShutdown(c) \/ CloseMark(c)
          \/ Kick(c) \/ KickSend(c)

\* Every thread of the hub that can take a step of its own eventually takes
\* it; connections and frames come when the environment sends them.
FairShutdown ==
    /\ WF_vars(MainSteps) /\ WF_vars(ReaperSteps)
    /\ \A c \in Clients : WF_vars(ThreadSteps(c))

SpecShutdownFair == Init /\ [][NextShutdown]_vars /\ FairShutdown

\* The hub with every session accepted and authenticated (Accept, then
\* ProcAuth and AuthSet on F_AuthOk, for each session): the session threads
\* wait in recv, the response to AUTH is the last frame each was sent.
InitServing ==
    /\ state = [c \in Clients |-> "CONNECTED"]
    /\ clients = [c \in Clients |-> c]
    /\ closed_clients = << >>
    /\ sockShut = [c \in Clients |-> FALSE]
    /\ in_use = [c \in Clients |-> 0]
    /\ freed = [c \in Clients |-> FALSE]
    /\ pc = [c \in Clients |-> "recv"]
    /\ msg = [c \in Clients |-> NoMsg]
    /\ reqs = [c \in Clients |-> 0]
    /\ kreason = [c \in Clients |-> ""]
    /\ sent = [c \in Clients |->
                 << [rid |-> F_AuthOk.rid, comps |-> << "COMM", "SUCCESS" >>] >>]
    /\ rpc = "pop" /\ rcur = NULL
    /\ mpc = "accept" /\ mi = 1
    /\ run_mainloop = TRUE /\ mainloop_running = TRUE
    /\ global_clients_lock = "free"
    /\ value = [x \in VarNames |-> VarDefs[x].default]
    /\ subscribers = [x \in VarNames |-> << >>]
    /\ subscribed_vars = [c \in Clients |-> << >>]
    /\ var_wlocked = [x \in VarNames |-> FALSE]
    /\ var_readers = [x \in VarNames |-> 0]
    /\ do_flush_flag = 0
    /\ fan = [c \in Clients |-> NoFan]
    /\ lastSet = [x \in VarNames |-> ""]
    /\ hublog = {}
    /\ filters = [c \in Clients |-> << >>]
    /\ bcast = [c \in Clients |-> NoBcast]
    /\ notified = [d \in Clients |-> [a \in Clients |-> 0]]
    /\ sendres = NoSend
    /\ sock = [c \in Clients |-> c]
    /\ fdOwner = [k \in Clients |-> k]
    /\ client_lock = [c \in Clients |-> NULL]
    /\ wr = [c \in Clients |-> NoWrite]
    /\ boot = Booted
    /\ PersistInit
    /\ LibInit

\* The reaper while the hub serves (no shutdown signal).
ReaperNext ==
    \/ ReaperPop \/ ReaperShut \/ ReaperUnlink \/ ReaperJoin \/ ReaperUnsub
    \/ ReaperClear \/ ReaperFree

\* The session threads' handlers for variable and watch requests.
StoreNext(c) ==
    \/ RecvError(c)
    \/ ProcVarGet(c) \/ GetSend(c)
    \/ ProcVarSet(c) \/ SetSize(c) \/ SetFan(c) \/ SetSend(c) \/ SetFanDone(c)
    \/ ProcWatchAdd(c) \/ ProcWatchDel(c)
    \/ Kick(c) \/ KickSend(c)

\* Reads, writes and subscriptions of a writable variable; requests that
\* name an undefined variable or write a read-only one.
VarFrames ==
    { F_GetDepth, F_SetDepthA, F_SetDepthB, F_AddDepth, F_DelDepth,
      F_GetGhost, F_SetGhost, F_AddGhost, F_DelGhost, F_SetLimit, F_AddLimit }

NextVar ==
    \/ ReaperNext
    \/ \E c \in Clients : Receive(c, VarFrames) \/ StoreNext(c)

SpecVar == InitServing /\ [][NextVar]_vars

\* The session threads' handlers for notification requests.
NotifyNext(c) ==
    \/ RecvError(c)
    \/ ProcAddFilter(c) \/ ProcClearFilters(c)
    \/ ProcNotifyOut(c) \/ BcastCheck(c) \/ BcastUnlock(c) \/ BcastSend(c)
    \/ BcastDone(c)

\* Filter requests and notifications.
NotifyFrames ==
    { F_FilterMatch, F_FilterAction, F_FilterPrefix, F_ClearFilters,
      F_OutHot, F_OutIst, F_OutAlarm }

NextNotify ==
    \/ ReaperPop \/ ReaperShut \/ ReaperUnlink \/ ReaperJoin \/ ReaperClear
    \/ ReaperFree
    \/ \E c \in Clients : Receive(c, NotifyFrames) \/ NotifyNext(c)

SpecNotify == InitServing /\ [][NextNotify]_vars

\* ------------------------------------------------- the persistence writer
\* The hub's process runs while no thread of it has faulted.
Alive ==
    /\ fpc # "crashed" /\ cpc # "crashed"
    /\ \A c \in Clients : pc[c] # "crashed"

FlushError == [app |-> "Hub", level |-> ERROR, text |-> "Unable to flush database!"]

\* The writer's test of the flag with line 64 (do_flush_flag = 0) left out.
FlusherTest_NoClear ==
    /\ fpc = "test"
    /\ IF do_flush_flag = 0
       THEN /\ fpc' = "towait"
            /\ UNCHANGED << do_flush_flag, iofailed, passes >>
       ELSE /\ UNCHANGED do_flush_flag
            /\ iofailed' = FALSE
            /\ passes' = passes + 1
            /\ fpc' = "open"
    /\ UNCHANGED << state, closed_clients, in_use, pc, msg, reqs, kreason, sent,
                    hublog, netVars, value, subscribers, subscribed_vars,
                    var_wlocked, var_readers, fan, lastSet >>
    /\ UNCHANGED noteVars
    /\ sendres' = NoSend
    /\ UNCHANGED << tmp_db, db, cpc, atSignal >>
    /\ UNCHANGED libVars
    /\ UNCHANGED wireVars
    /\ UNCHANGED boot

\* Hub_Var_dbFlusher, the test of its wait loop: with the flag clear it goes
\* on to pthread_cond_wait; with the flag set it clears the flag and starts
\* a pass.
FlusherTest ==
    /\ fpc = "test"
    /\ IF do_flush_flag = 0
       THEN /\ fpc' = "towait"
            /\ UNCHANGED << do_flush_flag, iofailed, passes >>
       ELSE /\ do_flush_flag' = 0
            /\ iofailed' = FALSE
            /\ passes' = passes + 1
            /\ fpc' = "open"
    /\ UNCHANGED << state, closed_clients, in_use, pc, msg, reqs, kreason, sent,
                    hublog, netVars, value, subscribers, subscribed_vars,
                    var_wlocked, var_readers, fan, lastSet >>
    /\ UNCHANGED noteVars
    /\ sendres' = NoSend
    /\ UNCHANGED << tmp_db, db, cpc, atSignal >>
    /\ UNCHANGED libVars
    /\ UNCHANGED wireVars
    /\ UNCHANGED boot

\* Hub_Var_dbFlusher enters pthread_cond_wait and blocks.
FlusherWait ==
    /\ fpc = "towait"
    /\ fpc' = "waiting"
    /\ UNCHANGED << state, closed_clients, in_use, pc, msg, reqs, kreason, sent,
                    hublog, netVars, storeVars >>
    /\ UNCHANGED noteVars
    /\ sendres' = NoSend
    /\ UNCHANGED << tmp_db, db, iofailed, cpc, atSignal >>
    /\ UNCHANGED passes
    /\ UNCHANGED libVars
    /\ UNCHANGED wireVars
    /\ UNCHANGED boot

\* fopen(tmp_db, "w"): the temporary file is created or truncated; on failure
\* the error is logged and the NULL stream is then passed to fprintf and
\* fclose, which faults or returns.
FlusherOpen ==
    /\ fpc = "open"
    /\ \/ /\ tmp_db' = Truncated
          /\ fpc' = "write"
          /\ UNCHANGED << hublog, iofailed >>
       \/ /\ Hub_Logging_log(ERROR, "Unable to flush database!")
          /\ iofailed' = TRUE
          /\ fpc' \in { "crashed", "rename" }
          /\ UNCHANGED tmp_db
    /\ UNCHANGED << state, closed_clients, in_use, pc, msg, reqs, kreason, sent,
                    netVars, storeVars >>
    /\ UNCHANGED noteVars
    /\ sendres' = NoSend
    /\ UNCHANGED << db, cpc, atSignal >>
    /\ UNCHANGED passes
    /\ UNCHANGED libVars
    /\ UNCHANGED wireVars
    /\ UNCHANGED boot

\* The header and one "%-20s = %.4f" line per persistent variable, then
\* fclose; the values are read without the variables' locks and no result is
\* tested: when a write fails the file stays short.
FlusherWrite ==
    /\ fpc = "write"
    /\ \/ /\ tmp_db' = DbOf(value)
          /\ UNCHANGED iofailed
       \/ /\ iofailed' = TRUE
          /\ UNCHANGED tmp_db
    /\ fpc' = "rename"
    /\ UNCHANGED << state, closed_clients, in_use, pc, msg, reqs, kreason, sent,
                    hublog, netVars, storeVars >>
    /\ UNCHANGED noteVars
    /\ sendres' = NoSend
    /\ UNCHANGED << db, cpc, atSignal >>
    /\ UNCHANGED passes
    /\ UNCHANGED libVars
    /\ UNCHANGED wireVars
    /\ UNCHANGED boot

\* rename(tmp_db, db): the temporary file replaces the live one, or the call
\* fails (as it does when there is no temporary file); the result is not tested.
FlusherRename ==
    /\ fpc = "rename"
    /\ \/ /\ tmp_db # NoFile
          /\ db' = tmp_db
          /\ tmp_db' = NoFile
          /\ UNCHANGED iofailed
       \/ /\ iofailed' = TRUE
          /\ UNCHANGED << db, tmp_db >>
    /\ fpc' = "test"
    /\ UNCHANGED << state, closed_clients, in_use, pc, msg, reqs, kreason, sent,
                    hublog, netVars, storeVars >>
    /\ UNCHANGED noteVars
    /\ sendres' = NoSend
    /\ UNCHANGED << cpc, atSignal >>
    /\ UNCHANGED passes
    /\ UNCHANGED libVars
    /\ UNCHANGED wireVars
    /\ UNCHANGED boot

\* Task_kill's pthread_cancel acts at the writer's next cancellation point:
\* pthread_cond_wait, or one of the file calls.
FlusherCancel ==
    /\ cpc = "kill"
    /\ fpc \in { "towait", "waiting", "open", "write", "rename" }
    /\ fpc' = "killed"
    /\ UNCHANGED << state, closed_clients, in_use, pc, msg, reqs, kreason, sent,
                    hublog, netVars, storeVars >>
    /\ UNCHANGED noteVars
    /\ sendres' = NoSend
    /\ UNCHANGED << tmp_db, db, iofailed, cpc, atSignal >>
    /\ UNCHANGED passes
    /\ UNCHANGED libVars
    /\ UNCHANGED wireVars
    /\ UNCHANGED boot

FlusherSteps ==
    FlusherTest \/ FlusherWait \/ FlusherOpen \/ FlusherWrite \/ FlusherRename

\* ------------------------------------------------------------- Hub_close
\* The persistent values that a SET has written.
SetValues ==
    [x \in PersistentNames |-> IF lastSet[x] = "" THEN -1 ELSE value[x]]

\* Hub_catchSignal on SIGTERM or SIGINT: Hub_close runs in a thread of its
\* own, logs "Closing" and calls Hub_Var_close, whose Task_kill cancels the
\* writer.
HubClose ==
    /\ cpc = "idle"
    /\ Hub_Logging_log(INFO, "Closing")
    /\ atSignal' = SetValues
    /\ UNCHANGED passes
    /\ cpc' = "kill"
    /\ UNCHANGED << state, closed_clients, in_use, pc, msg, reqs, kreason, sent,
                    netVars, storeVars >>
    /\ UNCHANGED noteVars
    /\ sendres' = NoSend
    /\ UNCHANGED << fpc, tmp_db, db, iofailed >>
    /\ UNCHANGED libVars
    /\ UNCHANGED wireVars
    /\ UNCHANGED boot

\* Task_kill's pthread_join returns when the writer has ended.
HubVarJoin ==
    /\ cpc = "kill" /\ fpc = "killed"
    /\ cpc' = "wait"
    /\ UNCHANGED << state, closed_clients, in_use, pc, msg, reqs, kreason, sent,
                    hublog, netVars, storeVars >>
    /\ UNCHANGED noteVars
    /\ sendres' = NoSend
    /\ UNCHANGED << fpc, tmp_db, db, iofailed, atSignal >>
    /\ UNCHANGED passes
    /\ UNCHANGED libVars
    /\ UNCHANGED wireVars
    /\ UNCHANGED boot

\* Task_wait joins the writer a second time, which returns or faults; then
\* the list of persistent variables, every variable and the variable cache
\* are freed.
HubVarFree ==
    /\ cpc = "wait"
    /\ cpc' \in { "net", "crashed" }
    /\ UNCHANGED << state, closed_clients, in_use, pc, msg, reqs, kreason, sent,
                    hublog, netVars, storeVars >>
    /\ UNCHANGED noteVars
    /\ sendres' = NoSend
    /\ UNCHANGED << fpc, tmp_db, db, iofailed, atSignal >>
    /\ UNCHANGED passes
    /\ UNCHANGED libVars
    /\ UNCHANGED wireVars
    /\ UNCHANGED boot

\* The variable store has been freed by Hub_Var_close.
StoreFreed == cpc \in { "net", "done" }

\* A variable or watch handler that runs with the store freed reads freed
\* memory: it goes on as if the store were there (ProcVarSet and the like),
\* or the thread faults.
VarRoutes == { "var_get", "var_set", "watch_add", "watch_del" }
StoreGone(c) ==
    /\ StoreFreed
    /\ pc[c] = "process" /\ Route(msg[c], state[c]) \in VarRoutes
    /\ pc' = [pc EXCEPT ![c] = "crashed"]
    /\ UNCHANGED << state, closed_clients, in_use, msg, reqs, kreason, sent,
                    hublog, netVars, storeVars >>
    /\ UNCHANGED noteVars
    /\ sendres' = NoSend
    /\ UNCHANGED persistVars
    /\ UNCHANGED libVars
    /\ UNCHANGED wireVars
    /\ UNCHANGED boot

\* Hub_Net_close, called by Hub_close after Hub_Var_close, clears the run flag.
HubNetClose == cpc = "net" /\ PreClose

\* Hub_Net_close returns when the main loop has signalled its end; the rest
\* of Hub_close touches neither the sessions nor the store.
HubNetDone ==
    /\ cpc = "net" /\ ~run_mainloop /\ ~mainloop_running
    /\ cpc' = "done"
    /\ UNCHANGED << state, closed_clients, in_use, pc, msg, reqs, kreason, sent,
                    hublog, netVars, storeVars >>
    /\ UNCHANGED noteVars
    /\ sendres' = NoSend
    /\ UNCHANGED << fpc, tmp_db, db, iofailed, atSignal >>
    /\ UNCHANGED passes
    /\ UNCHANGED libVars
    /\ UNCHANGED wireVars
    /\ UNCHANGED boot

HubCloseSteps == HubClose \/ HubVarJoin \/ HubVarFree \/ HubNetClose \/ HubNetDone

\* Requests that write the persistent variable, and LOG requests at and
\* below the minimum level.
F_SetTuningA == Frame(31, 4, <<"VAR", "SET", "Tuning", "2.75">>)
F_SetTuningB == Frame(32, 4, <<"VAR", "SET", "Tuning", "0.4999999">>)
PersistFrames == { F_SetTuningA, F_SetTuningB }
CloseFrames == { F_SetTuningA, F_SetTuningB, F_Log, F_LogInfo }

\* The session threads' steps on these requests.
PersistSteps(c) == ProcVarSet(c) \/ SetSize(c)

\* The hub serving SETs of a persistent variable, its writer running.
NextPersist ==
    \/ Alive /\ FlusherTest
    \/ Alive /\ FlusherWait
    \/ Alive /\ FlusherOpen
    \/ Alive /\ FlusherWrite
    \/ Alive /\ FlusherRename
    \/ \E c \in Clients :
          \/ Alive /\ Receive(c, PersistFrames)
          \/ Alive /\ ProcVarSet(c)
          \/ Alive /\ SetSize(c)

\* The writer and the session threads take the steps they can take; frames
\* come when the clients send them.
FairPersist ==
    /\ WF_vars(Alive /\ FlusherSteps)
    /\ \A c \in Clients : WF_vars(Alive /\ PersistSteps(c))

SpecPersistFair == InitServing /\ [][NextPersist]_vars /\ FairPersist

\* The hub serving, then shut down by a signal: the closing thread, the
\* writer, the main thread's kick loop, the reaper and the session threads;
\* the client of one session sends requests, the other is silent.
Sender == 1
NextClose ==
    \/ Alive /\ FlusherTest
    \/ Alive /\ FlusherWait
    \/ Alive /\ FlusherOpen
    \/ Alive /\ FlusherWrite
    \/ Alive /\ FlusherRename
    \/ Alive /\ FlusherCancel
    \/ Alive /\ HubClose
    \/ Alive /\ HubVarJoin
    \/ Alive /\ HubVarFree
    \/ Alive /\ HubNetClose
    \/ Alive /\ HubNetDone
    \/ Alive /\ MainBreak
    \/ Alive /\ MainKickMark
    \/ Alive /\ MainKickSend
    \/ Alive /\ MainSentinel
    \/ Alive /\ MainDone
    \/ Alive /\ ReaperPop
    \/ Alive /\ ReaperShut
    \/ Alive /\ ReaperUnlink
    \/ Alive /\ ReaperJoin
    \/ Alive /\ ReaperClear
    \/ Alive /\ ReaperFree
    \/ Alive /\ Receive(Sender, CloseFrames)
    \/ \E c \in Clients :
          \/ Alive /\ RecvError(c)
          \/ Alive /\ ProcVarSet(c)
          \/ Alive /\ SetSize(c)
          \/ Alive /\ ProcLog(c)
          \/ Alive /\ StoreGone(c)

SpecClose == InitServing /\ [][NextClose]_vars

\* ------------------------------------------------------ Comm_packMessage
MaxComps == 3          \* components of a message
MaxLines == 3          \* lines of a configuration file

\* A component is len bytes of one character, then its NUL.
CompShapes ==
    { [ch |-> "a", len |-> 0], [ch |-> "a", len |-> 4], [ch |-> "b", len |-> 4],
      [ch |-> "a", len |-> 32767], [ch |-> "b", len |-> 65530],
      [ch |-> "a", len |-> 65535] }
Messages ==
    { [rid |-> r, comps |-> cs] :
        r \in {0, 7},
        cs \in UNION { [1..n -> CompShapes] : n \in 0..MaxComps } }

\* htons on a value converted to uint16_t.
Htons(n) == n % 65536

\* The sum of strlen + 1 over the components (a size_t).
RECURSIVE TotalDataLength(_)
TotalDataLength(cs) ==
    IF cs = << >> THEN 0 ELSE Head(cs).len + 1 + TotalDataLength(Tail(cs))

\* Comm_packMessage: the three header fields, then each component's bytes
\* with its NUL.
Comm_packMessage(m) ==
    [ data_len |-> Htons(TotalDataLength(m.comps)),
      rid      |-> Htons(m.rid),
      count    |-> Htons(Len(m.comps)),
      data     |-> [i \in 1..Len(m.comps) |->
                       [ch |-> m.comps[i].ch, len |-> m.comps[i].len, nul |-> TRUE]] ]

\* memcpy of the first k bytes of the data: whole components, and the cut
\* one without its NUL.
RECURSIVE Memcpy(_, _)
Memcpy(d, k) ==
    IF d = << >> \/ k = 0 THEN << >>
    ELSE IF Head(d).len + 1 <= k
         THEN << Head(d) >> \o Memcpy(Tail(d), k - Head(d).len - 1)
         ELSE << [ch |-> Head(d).ch, len |-> k, nul |-> FALSE] >>

\* strlen on a component of the copy: within the copy its length; on a cut
\* component or past the copy the read leaves the buffer, and ends at
\* whatever NUL the memory behind it holds.
Component(copy, i) ==
    IF i <= Len(copy) /\ copy[i].nul
    THEN { [ch |-> copy[i].ch, len |-> copy[i].len] }
    ELSE { [ch |-> "?", len |-> 0] } \cup
         IF i <= Len(copy) THEN { [ch |-> copy[i].ch, len |-> copy[i].len] } ELSE {}

\* Comm_unpackMessage on a packed message: request id and count from the
\* header, data_len bytes copied, the components located by walking count
\* strings from the start of the copy.
Comm_unpackPacked(p) ==
    LET copy == Memcpy(p.data, p.data_len)
    IN  { [rid |-> p.rid, comps |-> cs] :
            cs \in { f \in [1..p.count -> UNION { Component(copy, i) : i \in 1..p.count }] :
                       \A i \in 1..p.count : f[i] \in Component(copy, i) } }

\* A message of the library is packed, unpacked and packed again.
CommPack ==
    /\ comm.stage = "new"
    /\ comm' = [stage |-> "packed", m |-> comm.m, packed |-> Comm_packMessage(comm.m)]
    /\ UNCHANGED << hubVars, conf >>
CommUnpack ==
    /\ comm.stage = "packed"
    /\ \E u \in Comm_unpackPacked(comm.packed) :
          comm' = [stage |-> "unpacked", m |-> comm.m, packed |-> comm.packed,
                   unpacked |-> u]
    /\ UNCHANGED << hubVars, conf >>
CommRepack ==
    /\ comm.stage = "unpacked"
    /\ comm' = [stage |-> "repacked", m |-> comm.m, packed |-> comm.packed,
                unpacked |-> comm.unpacked,
                repacked |-> Comm_packMessage(comm.unpacked)]
    /\ UNCHANGED << hubVars, conf >>

InitComm ==
    /\ HubInit /\ conf = NoConf
    /\ comm \in { [stage |-> "new", m |-> m] : m \in Messages }
NextComm == CommPack \/ CommUnpack \/ CommRepack
SpecComm == InitComm /\ [][NextComm]_vars

\* ------------------------------------------------------- Config_readFile
MAX_LINE == 512
CONFIG_SUCCESS == 0
CONFIG_ELINETOOLONG == -1
CONFIG_EPARSE == -3

\* A line of the file: its bytes before the newline (len), those of them
\* before the first '#' (code), whether the latter are all white space
\* (blank) and whether they hold a '=' (eq).
Line(len, code, blank, eq) == [len |-> len, code |-> code, blank |-> blank, eq |-> eq]
LineShapes ==
    { Line(0, 0, TRUE, FALSE),        \* an empty line
      Line(9, 9, FALSE, TRUE),        \* key = val
      Line(7, 7, FALSE, FALSE),       \* a word and no '='
      Line(600, 0, TRUE, FALSE),      \* a long comment
      Line(600, 9, FALSE, TRUE),      \* key = val, then a long comment
      Line(511, 511, FALSE, TRUE),
      Line(512, 512, FALSE, TRUE),
      Line(513, 513, FALSE, TRUE),
      Line(513, 513, TRUE, FALSE) }   \* white space only
Files == UNION { [1..n -> LineShapes] : n \in 0..MaxLines }

\* Config_readFile from the point where k lines have been read
\* (config_lineno = k): the next line is read byte by byte, the bytes before
\* a '#' are stored and the read fails when MAX_LINE of them are stored;
\* only then is config_lineno incremented and the line stripped, skipped
\* when empty, and split at its '='.  Every line of the file ends in a
\* newline, so the end of the file is read as one more, empty, line.
RECURSIVE ReadFrom(_, _)
ReadFrom(file, k) ==
    IF k >= Len(file)
    THEN [err |-> CONFIG_SUCCESS, lineno |-> k + 1]
    ELSE IF file[k + 1].code >= MAX_LINE
         THEN [err |-> CONFIG_ELINETOOLONG, lineno |-> k]
         ELSE IF file[k + 1].blank THEN ReadFrom(file, k + 1)
         ELSE IF ~file[k + 1].eq
              THEN [err |-> CONFIG_EPARSE, lineno |-> k + 1]
              ELSE ReadFrom(file, k + 1)

\* Config_readFile, then Config_getError and Config_getLineNumber.
Config_readFile ==
    /\ conf.stage = "new"
    /\ conf' = [stage |-> "read", file |-> conf.file,
                err |-> ReadFrom(conf.file, 0).err,
                lineno |-> ReadFrom(conf.file, 0).lineno]
    /\ UNCHANGED << hubVars, comm >>

InitConfig ==
    /\ HubInit /\ comm = NoComm
    /\ conf \in { [stage |-> "new", file |-> f] : f \in Files }
NextConfig == Config_readFile
SpecConfig == InitConfig /\ [][NextConfig]_vars

\* =================================================================== claims
StateMoves ==
    { << "UNKNOWN", "UNAUTHENTICATED" >>, << "UNAUTHENTICATED", "CONNECTED" >>,
      << "UNAUTHENTICATED", "CLOSED" >>, << "CONNECTED", "CLOSED" >> }

\* C1 (as claimed): a session's state only moves UNAUTHENTICATED -> CONNECTED,
\* UNAUTHENTICATED -> CLOSED or CONNECTED -> CLOSED (after its creation), and
\* once CLOSED no step sets it to another value.
C1_ClosedTerminal ==
    [][\A c \in Clients :
          state'[c] # state[c] => << state[c], state'[c] >> \in StateMoves]_vars

\* C2 (as claimed): every send on a session's socket is attempted while the
\* session's state is UNAUTHENTICATED or CONNECTED, never once it is CLOSED.
C2_NoSendAfterClosed ==
    [][\A c \in Clients :
          Len(sent'[c]) > Len(sent[c]) =>
              state[c] \in {"UNAUTHENTICATED", "CONNECTED"}]_vars

\* The message a session thread is processing is a 3-component COMM AUTH.
IsAuth(m) == m.count = 3 /\ m.comps[1] = "COMM" /\ m.comps[2] = "AUTH"

\* C3: when a session's 3-component COMM AUTH carries the configured password,
\* the handler writes exactly one frame to the session, COMM SUCCESS with the
\* request's id, and then sets the session's state to CONNECTED writing
\* nothing further.
C3_AuthSuccess ==
    [][\A c \in Clients :
          /\ ( /\ pc[c] = "process" /\ pc'[c] # "process"
               /\ IsAuth(msg[c]) /\ msg[c].comps[3] = Password )
             => /\ sent'[c] = Append(sent[c], [rid |-> msg[c].rid,
                                               comps |-> << "COMM", "SUCCESS" >>])
                /\ pc'[c] = "auth_set"
                /\ state'[c] = state[c]
          /\ ( pc[c] = "auth_set" /\ pc'[c] # "auth_set" )
             => /\ state'[c] = "CONNECTED"
                /\ pc'[c] = "recv"
                /\ sent'[c] = sent[c]
          /\ ( pc'[c] = "auth_set" /\ pc[c] # "auth_set" )
             => ( pc[c] = "process" /\ IsAuth(msg[c]) /\ msg[c].comps[3] = Password )
      ]_vars

\* C3 witness: a session authenticated with request id 7 is CONNECTED and the
\* only frame written to it is COMM SUCCESS with id 7.
C3_Witness ==
    \E c \in Clients :
        /\ state[c] = "CONNECTED" /\ pc[c] = "recv" /\ reqs[c] = 1
        /\ sent[c] = << [rid |-> 7, comps |-> << "COMM", "SUCCESS" >>] >>

\* C4 (as claimed): after a COMM AUTH with a wrong password the session's
\* connection is shut down only after COMM FAILURE and COMM KICKING
\* "Authentication failure" have both been written: the socket is still open
\* when the KICKING frame is about to be written.
C4_KickBeforeShutdown ==
    \A c \in Clients :
        ( pc[c] = "kick_send" /\ kreason[c] = "Authentication failure" )
            => ~sockShut[c]

\* C5 (as claimed): every message for which the dispatcher returns failure
\* without a handler having kicked the session (no components, COMM with an
\* unknown verb or wrong count, a non-COMM message from a session that is not
\* CONNECTED, an unknown namespace, a known verb with the wrong count) makes
\* the session thread kick the session with reason "Illegal message".
C5_IllegalMessageKick ==
    [][\A c \in Clients :
          ( /\ pc[c] = "process" /\ pc'[c] # "process"
            /\ Route(msg[c], state[c]) \in {"empty", "reject"} )
          => ( pc'[c] = "kick" /\ kreason'[c] = "Illegal message" )]_vars

\* C6 (as claimed): a frame whose data holds a number of terminators other
\* than its declared count is never dispatched: once its thread has looked at
\* it, the session is being kicked with reason "Illegal message".
C6_MalformedRejected ==
    \A c \in Clients :
        ( ~msg[c].wf /\ pc[c] # "process" )
            => ( pc[c] \in {"kick", "kick_send"} /\ kreason[c] = "Illegal message" )

\* The message names, in its third component, a variable no definition has.
NamesUndefined(m) ==
    /\ \/ m.count = 3 /\ m.comps[1] = "VAR" /\ m.comps[2] = "GET"
       \/ m.count = 4 /\ m.comps[1] = "VAR" /\ m.comps[2] = "SET"
       \/ m.count = 3 /\ m.comps[1] = "WATCH" /\ m.comps[2] \in {"ADD", "DEL"}
    /\ m.comps[3] \notin VarNames

\* The kick reason the claim gives for such a message.
UndefinedReason(m) ==
    IF m.comps[1] = "VAR" THEN "Invalid variable access (" \o m.comps[3] \o ")"
    ELSE IF m.comps[2] = "ADD"
         THEN "Subscribing to invalid variable (" \o m.comps[3] \o ")"
         ELSE "Unsubscribing to invalid variable (" \o m.comps[3] \o ")"

KickingFrame(reason) == [rid |-> 0, comps |-> << "COMM", "KICKING", reason >>]

\* C7: a GET, SET, WATCH ADD or WATCH DEL of a CONNECTED session that names an
\* undefined variable makes the handler kick the session with the reason of
\* its kind; the kick marks the session CLOSED and writes KICKING with that
\* reason, the thread ends with the session CLOSED, and none of these steps
\* changes a variable's value or a subscriber list.
C7_UndefinedVariableKick ==
    [][\A c \in Clients :
          NamesUndefined(msg[c]) =>
            /\ ( pc[c] = "process" /\ pc'[c] # "process" /\ state[c] = "CONNECTED" )
                 => /\ pc'[c] = "kick"
                    /\ kreason'[c] = UndefinedReason(msg[c])
                    /\ UNCHANGED << value, subscribers, subscribed_vars, sent, state >>
            /\ ( pc[c] = "kick" /\ pc'[c] # "kick" )
                 => /\ pc'[c] = "kick_send" /\ state'[c] = "CLOSED"
                    /\ kreason[c] = UndefinedReason(msg[c])
                    /\ UNCHANGED << value, subscribers, subscribed_vars, sent, kreason >>
            /\ ( pc[c] = "kick_send" /\ pc'[c] # "kick_send" )
                 => /\ pc'[c] = "done" /\ state'[c] = "CLOSED"
                    /\ sent' = [sent EXCEPT ![c] =
                                  Append(@, KickingFrame(UndefinedReason(msg[c])))]
                    /\ UNCHANGED << value, subscribers, subscribed_vars >>]_vars

\* C7's case: a session that asked to unsubscribe from an undefined variable
\* has been kicked with the reason for DEL and its thread has ended.
C7_Witness ==
    \E c \in Clients :
        /\ pc[c] = "done" /\ state[c] = "CLOSED"
        /\ sent[c] = << KickingFrame("Unsubscribing to invalid variable (Ghost)") >>

\* The message is a SET of a defined read-only variable.
IsSetReadonly(m) ==
    /\ m.count = 4 /\ m.comps[1] = "VAR" /\ m.comps[2] = "SET"
    /\ m.comps[3] \in VarNames /\ VarDefs[m.comps[3]].readonly

\* C8: a SET of a CONNECTED session on a read-only variable is followed by the
\* kick with reason "Invalid variable access (<name>)" and nothing else: the
\* steps of its handling leave every value and the persistence flag as they
\* were and write one frame only, the KICKING frame to the caller.
C8_ReadOnlySet ==
    [][\A c \in Clients :
          IsSetReadonly(msg[c]) =>
            /\ ( pc[c] = "process" /\ pc'[c] # "process" /\ state[c] = "CONNECTED" )
                 => /\ pc'[c] = "kick"
                    /\ kreason'[c] =
                          "Invalid variable access (" \o msg[c].comps[3] \o ")"
                    /\ UNCHANGED << value, do_flush_flag, sent, subscribers >>
            /\ ( pc[c] = "kick" /\ pc'[c] # "kick" )
                 => /\ pc'[c] = "kick_send"
                    /\ UNCHANGED << value, do_flush_flag, sent, kreason >>
            /\ ( pc[c] = "kick_send" /\ pc'[c] # "kick_send" )
                 => /\ sent' = [sent EXCEPT ![c] = Append(@, KickingFrame(
                          "Invalid variable access (" \o msg[c].comps[3] \o ")"))]
                    /\ UNCHANGED << value, do_flush_flag >>]_vars

\* C8's case: a session was kicked for writing Limit while Limit had a
\* subscriber; Limit and the persistence flag are as at the start.
C8_Witness ==
    \E c \in Clients :
        /\ pc[c] = "done"
        /\ sent[c] = << KickingFrame("Invalid variable access (Limit)") >>
        /\ subscribers["Limit"] # << >>
        /\ value["Limit"] = VarDefs["Limit"].default
        /\ do_flush_flag = 0

\* The message is a GET of a defined variable.
IsGet(m) ==
    m.count = 3 /\ m.comps[1] = "VAR" /\ m.comps[2] = "GET" /\ m.comps[3] \in VarNames

\* What the latest successful SET on x gave, read as the hub reads it; x's
\* initial value if there was none.
LatestValue(x) == IF lastSet[x] = "" THEN VarDefs[x].default ELSE Atof(lastSet[x])

\* The steps of a GET: the value is read as LatestValue and formatted, one
\* frame VAR VALUE RO/RW <value> with the request id is written, to the
\* caller; neither step changes sessions' states, values, subscriptions, the
\* persistence flag or the log.
GetStepsAsClaimed(c) ==
    /\ ( pc[c] = "process" /\ pc'[c] # "process" /\ state[c] = "CONNECTED"
         /\ IsGet(msg[c]) )
         => /\ pc'[c] = "get_send"
            /\ fan'[c].str = FormatF(LatestValue(msg[c].comps[3]))
            /\ UNCHANGED << sent, state, closed_clients, value, subscribers,
                            subscribed_vars, do_flush_flag, hublog >>
    /\ ( pc[c] = "get_send" /\ pc'[c] # "get_send" )
         => /\ sent' = [sent EXCEPT ![c] = Append(@,
                   [rid |-> msg[c].rid,
                    comps |-> << "VAR", "VALUE",
                                 IF VarDefs[msg[c].comps[3]].readonly
                                 THEN "RO" ELSE "RW",
                                 fan[c].str >>])]
            /\ UNCHANGED << state, closed_clients, value, subscribers,
                            subscribed_vars, do_flush_flag, hublog >>

\* A session thread is in the handler of a GET of a defined variable whose
\* lock is write-held with no thread left to release it.
GetStuck(c) ==
    /\ pc[c] = "process" /\ state[c] = "CONNECTED" /\ IsGet(msg[c])
    /\ var_wlocked[msg[c].comps[3]]

\* C9 (as claimed): a GET on a defined variable is answered, with exactly one
\* frame VAR VALUE RO/RW <value> echoing the request id, the value being that
\* of the latest successful SET (or the initial value), and changes no hub
\* state.
C9_GetAnswered ==
    /\ [][\A c \in Clients : GetStepsAsClaimed(c)]_vars
    /\ [](\A c \in Clients : ~GetStuck(c))

\* The answer part of C9 alone: what a GET that is answered is answered with.
GetAnswerShape == [][\A c \in Clients : GetStepsAsClaimed(c)]_vars

\* A GET was answered with the value of an earlier SET ("2.75").
GetAnswerSeen ==
    \E c \in Clients :
        sent[c] = << [rid |-> 11, comps |-> << "VAR", "VALUE", "RW", "2.750000" >>] >>

WatchFrame(x, str) == [rid |-> 0, comps |-> << "WATCH", x, str >>]

\* The steps of a SET's fan-out by thread c, the value string of the frames
\* being str: returning for want of subscribers, no session subscribed since
\* the write is left out; each send appends WATCH x str, request id 0, to one
\* session of x's subscriber list; at the end every session subscribed since
\* the write has been sent to.
FanOutSteps(c, str) ==
    /\ ( pc[c] = "set_size" /\ pc'[c] \notin {"set_size", "set_fan"} )
         => ( fan[c].before = {} /\ sent' = sent )
    /\ ( pc[c] = "set_send" /\ fan'[c].i # fan[c].i )
         => \E s \in Range(subscribers[fan[c].name]) :
                sent' = [sent EXCEPT ![s] = Append(@, WatchFrame(fan[c].name, str))]
    /\ ( pc[c] = "set_send" /\ pc'[c] # "set_send" )
         => ( fan[c].before \subseteq Range(fan[c].to) /\ sent' = sent )

\* A WATCH frame is written only by a fan-out's send, for the fan-out's
\* variable, to a session of that variable's subscriber list.
NoStrayWatch ==
    \A d \in Clients :
        ( sent'[d] # sent[d] /\ sent'[d] # << >>
          /\ sent'[d][Len(sent'[d])].comps[1] = "WATCH" )
        => \E c \in Clients :
              /\ pc[c] = "set_send" /\ fan'[c].i # fan[c].i
              /\ fan[c].name = sent'[d][Len(sent'[d])].comps[2]
              /\ d \in Range(subscribers[fan[c].name])

WatchCarriesLatest ==
    [][\A c \in Clients :
          ( pc[c] = "set_send" /\ fan'[c].i # fan[c].i )
          => /\ lastSet[fan[c].name] # ""
             /\ \E s \in Clients :
                   sent' = [sent EXCEPT ![s] = Append(@,
                       WatchFrame(fan[c].name, FormatF(LatestValue(fan[c].name))))]]_vars

\* A SET wrote its value while sessions were subscribed, and its fan-out waits
\* on the variable's lock, write-held with no thread left to release it.
FanOutStuck(c) ==
    /\ pc[c] = "set_fan" /\ fan[c].before # {}
    /\ var_wlocked[fan[c].name]

\* C11 (as claimed): every WATCH frame carries a value no older than the SET
\* that triggered it, frames to one subscriber follow the order of the writes,
\* and a subscriber's last WATCH frame carries the variable's final value: no
\* written value is left without the fan-out that delivers it.
C11_WatchRecency ==
    /\ WatchCarriesLatest
    /\ [](\A c \in Clients : ~FanOutStuck(c))

\* A filter matches a body as the filter types are specified: MATCH on
\* equality, ACTION when the body starts with the text, PREFIX when it starts
\* with the text and ends there or goes on with a space.
Matches(f, body) ==
    LET B == Chars(body)
        F == Chars(f.text)
        starts == Len(F) <= Len(B) /\ SubSeq(B, 1, Len(F)) = F
    IN  \/ f.type = FILTER_MATCH /\ B = F
        \/ f.type = FILTER_ACTION /\ starts
        \/ f.type = FILTER_PREFIX /\ starts /\ (Len(B) = Len(F) \/ B[Len(F) + 1] = " ")

\* At least one filter of the list matches the body.
SomeFilterMatches(fs, body) == \E k \in 1..Len(fs) : Matches(fs[k], body)

\* Thread c's step selects a session for its broadcast.
Selects(c) == Len(bcast'[c].send_to) > Len(bcast[c].send_to)

\* A session is selected only while CONNECTED and with a filter that matches
\* the body at that moment, and a NOTIFY IN frame is written only by a
\* broadcast's send, to the session selected, with the broadcast's body.
NotifySteps ==
    /\ \A c \in Clients :
          Selects(c) =>
             LET d == bcast'[c].send_to[Len(bcast'[c].send_to)]
             IN  state[d] = "CONNECTED" /\ SomeFilterMatches(filters[d], bcast[c].body)
    /\ \A d \in Clients :
          ( sent'[d] # sent[d] /\ sent'[d] # << >>
            /\ sent'[d][Len(sent'[d])].comps[1] = "NOTIFY" )
          => \E c \in Clients :
                /\ pc[c] = "bcast_send" /\ bcast'[c].j = bcast[c].j + 1
                /\ d = bcast[c].send_to[bcast[c].j]
                /\ sent'[d] = Append(sent[d],
                      [rid |-> 0, comps |-> << "NOTIFY", "IN", bcast[c].body >>])

Checks(c, d) ==
    /\ pc[c] = "bcast_check" /\ bcast[c].i <= Len(clients)
    /\ d = clients[bcast[c].i]
    /\ bcast'[c].i = bcast[c].i + 1

\* C13 (as claimed): filters are OR-combined.  When a broadcast checks a
\* CONNECTED session, the session is selected if and only if at least one of
\* its filters matches the body (MATCH on equality, ACTION on starts-with,
\* PREFIX as specified), whatever the order of the filters and whatever
\* filters follow a matching one.
C13_FiltersOrCombined ==
    [][\A c, d \in Clients :
          (Checks(c, d) /\ state[d] = "CONNECTED")
          => (Selects(c) <=> SomeFilterMatches(filters[d], bcast[c].body))]_vars

\* C14 (as claimed): a session whose only filter is PREFIX "ALARM" is
\* selected for the notification "ALARM hot" and not for "ALARMIST".
C14_PrefixWordBoundary ==
    [][\A c, d \in Clients :
          ( /\ Checks(c, d) /\ state[d] = "CONNECTED"
            /\ filters[d] = << [type |-> FILTER_PREFIX, text |-> "ALARM"] >> )
          => /\ bcast[c].body = "ALARM hot" => Selects(c)
             /\ bcast[c].body = "ALARMIST" => ~Selects(c)]_vars

\* Thread a's step writes the NOTIFY IN frame of its broadcast to session d.
SendsIn(a, d) ==
    /\ pc[a] = "bcast_send" /\ bcast[a].j <= Len(bcast[a].send_to)
    /\ d = bcast[a].send_to[bcast[a].j]
    /\ sent'[d] = Append(sent[d],
                      [rid |-> 0, comps |-> << "NOTIFY", "IN", bcast[a].body >>])

\* C15: per-sender FIFO.  A broadcast is the one for the frame its sender's
\* thread is handling, and when its NOTIFY IN frame is written to a session,
\* the last frame written to that session for a NOTIFY OUT of the same
\* sender was for an earlier frame of that sender: a session sent the frames
\* of n1 and n2, n1 accepted first, is sent n1's first, whatever other
\* senders broadcast meanwhile.
C15_PerSenderFifo ==
    [][\A a, d \in Clients :
          SendsIn(a, d) => /\ bcast[a].n = reqs[a]
                           /\ notified[d][a] < bcast[a].n]_vars

\* C15's case: session d was sent the frames of two notifications with
\* different bodies, both from the other session, the second of them for
\* that session's second frame.
C15_Witness ==
    \E a, d \in Clients :
        /\ a # d /\ notified[d][a] = 2 /\ notified[d][d] = 0
        /\ Len(sent[d]) = 2
        /\ sent[d][1].comps[1] = "NOTIFY" /\ sent[d][2].comps[1] = "NOTIFY"
        /\ sent[d][1].comps[3] # sent[d][2].comps[3]

\* The step appends one frame to the frames sent to session d.
Appends(d) ==
    /\ Len(sent'[d]) = Len(sent[d]) + 1
    /\ SubSeq(sent'[d], 1, Len(sent[d])) = sent[d]

\* A response frame: COMM SUCCESS, COMM FAILURE, COMM CLOSING or VAR VALUE.
IsResponse(f) ==
    \/ f.comps[1] = "COMM" /\ f.comps[2] \in {"SUCCESS", "FAILURE", "CLOSING"}
    \/ f.comps[1] = "VAR" /\ f.comps[2] = "VALUE"

\* A frame the hub sends on its own: COMM KICKING, NOTIFY IN or WATCH.
IsUnsolicited(f) ==
    \/ f.comps[1] = "COMM" /\ f.comps[2] = "KICKING"
    \/ f.comps[1] = "NOTIFY"
    \/ f.comps[1] = "WATCH"

\* The frames sent to d since its last request hold no response.
NoResponseYet(d) == \A k \in 1..Len(sent[d]) : ~IsResponse(sent[d][k])

\* The responses of the given kinds echo the request id, one per request, and
\* the hub's own frames carry request id 0.
EchoSteps(kinds) ==
    \A d \in Clients :
       Appends(d) =>
          LET f == sent'[d][Len(sent'[d])]
          IN  /\ (IsResponse(f) /\ f.comps[2] \in kinds /\ msg[d].rid # 0)
                    => f.rid = msg[d].rid /\ NoResponseYet(d)
              /\ IsUnsolicited(f) => f.rid = 0

\* C16 (as claimed): every response to a frame with a non-zero request id
\* (COMM SUCCESS, COMM FAILURE, COMM CLOSING, VAR VALUE) carries that request
\* id and is the only response to that request; every KICKING, NOTIFY IN and
\* WATCH frame carries request id 0.
C16_ResponseEchoesId ==
    [][EchoSteps({"SUCCESS", "FAILURE", "CLOSING", "VALUE"})]_vars

\* The send call of the step just taken failed: the socket was not writable
\* or send failed (-1), or fewer bytes than the frame's were written.
SendFailed == sendres.to # NULL /\ sendres.n < FrameLen

\* Session d waits in the closed-clients queue or is the one the reaper holds.
QueuedForReaping(d) == d \in Range(closed_clients) \/ rcur = d

\* C17 (as claimed): a send that fails, on whatever path (response, NOTIFY IN
\* of a broadcast, WATCH of a fan-out), leaves the session it was for marked
\* CLOSED and queued for reaping.
C17_FailedSendCloses ==
    SendFailed => state[sendres.to] = "CLOSED" /\ QueuedForReaping(sendres.to)

\* Number of occurrences of x in the list s.
Occurrences(s, x) == Cardinality({ i \in 1..Len(s) : s[i] = x })

\* C18: whenever no subscription operation is under way (each is one step
\* here), every session c occurs in every variable v's subscriber list as
\* often as v occurs in c's list of subscribed variables.
C18_SubscriptionSymmetry ==
    \A c \in Clients : \A x \in VarNames :
        Occurrences(subscribers[x], c) = Occurrences(subscribed_vars[c], x)

\* C18's case: a session has subscribed twice to Depth, its thread waits
\* for the next frame, and both lists hold the pair twice.
C18_Witness ==
    \E c \in Clients :
        /\ pc[c] = "recv" /\ reqs[c] = 2
        /\ Occurrences(subscribers["Depth"], c) = 2
        /\ Occurrences(subscribed_vars[c], "Depth") = 2

\* Thread c's step handles a WATCH DEL that names the defined variable x, to
\* which session c is not subscribed.
DelNotSubscribed(c, x) ==
    /\ pc[c] = "process" /\ Route(msg[c], state[c]) = "watch_del"
    /\ pc'[c] # pc[c]
    /\ x = msg[c].comps[3] /\ x \in VarNames
    /\ IndexOf(subscribers[x], c) = 0

\* C19 (as claimed): a WATCH DEL for a defined variable to which the session
\* is not subscribed is a no-op: it changes neither list, is not an error,
\* does not kick the session, and leaves the variable unlocked, so usable by
\* later GET, SET, WATCH ADD and WATCH DEL requests.
C19_UnsubscribeTolerant ==
    [][\A c \in Clients : \A x \in VarNames :
          DelNotSubscribed(c, x)
          => /\ pc'[c] # "kick" /\ kreason'[c] = kreason[c]
             /\ UNCHANGED << subscribers, subscribed_vars >>
             /\ ~var_wlocked'[x]]_vars

\* The kick loop after the accept loop: the active list does not change while
\* it runs, each turn sends COMM KICKING "Hub closing" to the session at the
\* loop's index, and the loop ends past the last session of the list.
KickLoopSteps ==
    /\ mpc \in {"kick", "kick_send"} => clients' = clients
    /\ mi' = mi + 1 =>
          sent'[clients[mi]] = Append(sent[clients[mi]],
              [rid |-> 0, comps |-> << "COMM", "KICKING", "Hub closing" >>])
    /\ (mpc = "kick" /\ mpc' = "join") => mi > Len(clients)

\* The reaper has consumed the sentinel with no session left in the
\* closed-clients queue and every session marked CLOSED released.
ReapedBeforeSentinel ==
    rpc = "done" =>
       \A c \in Clients : /\ c \notin Range(closed_clients)
                          /\ state[c] = "CLOSED" => freed[c]

\* C20 (as claimed): no session leaks past shutdown.  After the accept loop
\* every session of the active list is kicked with "Hub closing"; every
\* session marked CLOSED has been taken from the closed-clients queue and
\* released when the reaper consumes the sentinel; the active list is empty
\* when the done-condition is signalled.
C20_NoSessionLeak ==
    /\ [][KickLoopSteps]_vars
    /\ [](ReapedBeforeSentinel)
    /\ [](mpc = "done" => clients = << >>)

\* C21 (as claimed): once the run flag is cleared the main loop leaves its
\* accept loop, kicks the sessions, joins the reaper and signals the
\* done-condition, with no further connection arriving.
C21_ShutdownTerminates == (~run_mainloop) ~> (mpc = "done")

\* A session thread executes a variable operation (GET, SET, WATCH ADD or
\* DEL) in this step; the reaper removes a subscription in this step.
VarOpStep ==
    \E c \in Clients :
        /\ pc[c] = "process" /\ Route(msg[c], state[c]) \in VarRoutes
        /\ pc'[c] # pc[c]
UnsubStep == subscribers' # subscribers /\ rpc = "unsub"

\* Every session has been kicked or closed, its thread has exited, and the
\* reaper has drained the closed-clients queue and consumed the sentinel.
SessionsGone ==
    /\ \A c \in Clients : state[c] = "CLOSED" /\ pc[c] = "done"
    /\ closed_clients = << >> /\ rpc = "done"

\* C22 (as claimed): on shutdown the persistence writer is stopped and the
\* variable store freed only once every session has been kicked, every
\* session thread has exited and the closed-clients queue is drained; with
\* the store freed no handler executes a variable operation and the reaper
\* removes no subscription.
C22_StoreOutlivesSessions ==
    [][ /\ (fpc' = "killed" \/ StoreFreed') => SessionsGone'
        /\ StoreFreed => ~VarOpStep /\ ~UnsubStep ]_vars

\* The live database file holds, for every persistent variable a SET has
\* written, the variable's current value.
DbCurrent ==
    \A x \in PersistentNames : lastSet[x] # "" => db[x] = Format4(value[x])

\* C23 (as claimed): with the writer scheduled fairly and no file operation
\* failing, after a successful SET of a persistent variable the database
\* file eventually holds the last value set, with no later SET needed,
\* however the setter's flag-set and signal interleave with the writer's
\* flag test and condition wait.
C23_EventualDurability == (<>iofailed) \/ <>[]DbCurrent

\* Every value a SET had written to a persistent variable when Hub_close
\* began is in the database file (or a value set later is), or the failure
\* of a flush has been logged.
SetsAccountedFor ==
    \/ FlushError \in hublog
    \/ \A x \in PersistentNames :
          atSignal[x] >= 0 =>
             db[x] \in { Format4(atSignal[x]), Format4(value[x]) }

\* The writer is stopped in this step.
WriterStopped == fpc # "killed" /\ fpc' = "killed"

\* C24 (as claimed): when the hub has finished shutting down, every SET of a
\* persistent variable made before the shutdown signal is in the database
\* file or was logged as a failed flush; the writer is not stopped with the
\* dirty flag set or in the middle of a pass.
C24_NoLostUpdateAtShutdown ==
    [][ /\ cpc' = "done" => SetsAccountedFor'
        /\ WriterStopped => do_flush_flag = 0 /\ fpc \in { "towait", "waiting" }
      ]_vars

\* A file operation of the writer fails in this step.
FlushFails == ~iofailed /\ iofailed'

\* C25 (as claimed): a failure to open, write or rename the temporary
\* database file is logged at ERROR and only drops that flush: the live
\* database file is left as it was by the pass in which the failure occurs
\* and the writer keeps running.
C25_FlushFailureContained ==
    [][ /\ FlushFails => FlushError \in hublog' /\ fpc' # "crashed"
        /\ iofailed' => db' = db ]_vars

\* C26 (as claimed): for every message given to Comm_packMessage the data-len
\* field of the packed frame is the sum over the components of byte length
\* + 1, the count field is the number of components, and packing the
\* unpacked frame again gives the same frame.
C26_PackRoundTrip ==
    /\ comm.stage \in { "packed", "unpacked", "repacked" } =>
          /\ comm.packed.data_len = TotalDataLength(comm.m.comps)
          /\ comm.packed.count = Len(comm.m.comps)
    /\ comm.stage = "repacked" => comm.repacked = comm.packed

\* A line longer than the maximum; a line that is neither blank nor has '='.
TooLong(l) == l.len > MAX_LINE
Unparsable(l) == ~l.blank /\ ~l.eq

\* C27 (as claimed): when a line exceeds the maximum length (and no line
\* before it is in error) Config_readFile fails with the line-too-long
\* error and Config_getLineNumber is that line's number counted from 1, as
\* it is for a parse error.
C27_LineTooLongNumber ==
    conf.stage = "read" =>
       \A k \in 1..Len(conf.file) :
           ( /\ TooLong(conf.file[k])
             /\ \A j \in 1..(k - 1) :
                   ~TooLong(conf.file[j]) /\ ~Unparsable(conf.file[j]) )
           => conf.err = CONFIG_ELINETOOLONG /\ conf.lineno = k

\* C28 (as claimed): no line below the configured minimum level is written
\* to the log, be it a line of the hub or the line of a client's LOG request.
C28_MinLevelFilter == \A l \in hublog : l.level >= min_log_level

\* The places a session marked closed is in: the closed-clients queue (once
\* per append), the reaper's hands, or released.
InReaper(c) == rcur = c /\ rpc \notin { "pop", "done", "uaf" }
Reapings(c) ==
    Occurrences(closed_clients, c) + (IF InReaper(c) THEN 1 ELSE 0)
                                   + (IF freed[c] THEN 1 ELSE 0)

\* C29 (as claimed): a session is appended to the closed-clients queue at
\* most once over its lifetime, however many threads call
\* Hub_Net_markClientClosed, and the reaper pops and frees it at most once:
\* it is never in the queue a second time, nor in the queue while the reaper
\* holds it or after its release, and the reaper never pops a released session.
C29_ReapedOnce ==
    /\ \A c \in Clients : Reapings(c) <= 1
    /\ rpc # "uaf"

\* The step writes a COMM KICKING frame to session d.
KickingWritten(d) ==
    /\ Appends(d)
    /\ sent'[d][Len(sent'[d])].comps[1] = "COMM"
    /\ sent'[d][Len(sent'[d])].comps[2] = "KICKING"

\* C30 (as claimed): in every kick the COMM KICKING frame is written before
\* the session is marked CLOSED and queued for the reaper, so the reaper has
\* not shut the session's socket when the frame is written.
C30_KickingBeforeClosed ==
    [][ \A d \in Clients :
           KickingWritten(d) => state[d] # "CLOSED" /\ ~sockShut[d] ]_vars

-----------------------------------------------------------------------------
\* Descriptors and the send mutex.  Hub_Net_sendPackedMessage takes
\* client->lock, polls and writes client->sock, and releases the lock; the
\* write is a system call on a descriptor NUMBER, which the reaper's close()
\* frees and the next accept() hands out again.

\* The thread t has taken d's send mutex and is inside send() on d's number.
SendEnter(t, d) ==
    /\ client_lock[d] = NULL
    /\ client_lock' = [client_lock EXCEPT ![d] = t]
    /\ wr' = [wr EXCEPT ![t] =
                 [to |-> d, conn |-> IF sock[d] = NULL THEN NULL ELSE fdOwner[sock[d]]]]
    /\ UNCHANGED << sock, fdOwner >>

\* send() has returned and the mutex is released.
SendLeave(t, d) ==
    /\ wr[t].to = d /\ client_lock[d] = t
    /\ client_lock' = [client_lock EXCEPT ![d] = NULL]
    /\ wr' = [wr EXCEPT ![t] = NoWrite]
    /\ UNCHANGED << sock, fdOwner >>

\* The COMM AUTH response, in two steps: into send(), and out of it.
AuthSendBegin(c) ==
    /\ pc[c] = "process" /\ Route(msg[c], state[c]) = "auth"
    /\ SendEnter(c, c)
    /\ pc' = [pc EXCEPT ![c] = "auth_sending"]
    /\ sendres' = NoSend
    /\ UNCHANGED << state, closed_clients, in_use, msg, reqs, kreason, sent, hublog,
                    netVars, storeVars >>
    /\ UNCHANGED noteVars
    /\ UNCHANGED persistVars
    /\ UNCHANGED libVars
    /\ UNCHANGED boot

AuthSendEnd(c) ==
    /\ pc[c] = "auth_sending"
    /\ SendLeave(c, c)
    /\ LET good == msg[c].comps[3] = Password
       IN  /\ Hub_Net_sendMessage(c, msg[c].rid,
                   << "COMM", IF good THEN "SUCCESS" ELSE "FAILURE" >>)
           /\ kreason' = [kreason EXCEPT ![c] =
                             IF good THEN @ ELSE "Authentication failure"]
           /\ pc' = [pc EXCEPT ![c] = IF good THEN "auth_set" ELSE "kick"]
    /\ UNCHANGED << state, closed_clients, in_use, msg, reqs, hublog, netVars,
                    storeVars >>
    /\ UNCHANGED noteVars
    /\ UNCHANGED persistVars
    /\ UNCHANGED libVars
    /\ UNCHANGED boot

\* The COMM KICKING frame of Hub_Client_kick, in two steps.
KickSendBegin(c) ==
    /\ pc[c] = "kick_send"
    /\ SendEnter(c, c)
    /\ pc' = [pc EXCEPT ![c] = "kick_sending"]
    /\ sendres' = NoSend
    /\ UNCHANGED << state, closed_clients, in_use, msg, reqs, kreason, sent, hublog,
                    netVars, storeVars >>
    /\ UNCHANGED noteVars
    /\ UNCHANGED persistVars
    /\ UNCHANGED libVars
    /\ UNCHANGED boot

KickSendEnd(c) ==
    /\ pc[c] = "kick_sending"
    /\ SendLeave(c, c)
    /\ Hub_Net_sendMessage(c, 0, << "COMM", "KICKING", kreason[c] >>)
    /\ in_use' = [in_use EXCEPT ![c] = @ - 1]
    /\ kreason' = [kreason EXCEPT ![c] = ""]
    /\ msg' = [msg EXCEPT ![c] = NoMsg]
    /\ pc' = [pc EXCEPT ![c] = Resume(state[c])]
    /\ UNCHANGED << state, closed_clients, reqs, hublog, netVars, storeVars >>
    /\ UNCHANGED noteVars
    /\ UNCHANGED persistVars
    /\ UNCHANGED libVars
    /\ UNCHANGED boot

\* Authentication requests, right and wrong.
WireFrames == { F_AuthOk, F_AuthBad }

NextWire ==
    \/ \E c \in Clients : AcceptFd(c)
    \/ ReaperPop
    \/ ReaperShutFd
    \/ ReaperUnlink
    \/ ReaperJoin
    \/ ReaperClear
    \/ ReaperFree
    \/ \E c \in Clients : Receive(c, WireFrames)
    \/ \E c \in Clients : RecvError(c)
    \/ \E c \in Clients : AuthSendBegin(c)
    \/ \E c \in Clients : AuthSendEnd(c)
    \/ \E c \in Clients : AuthSet(c)
    \/ \E c \in Clients : Kick(c)
    \/ \E c \in Clients : KickSendBegin(c)
    \/ \E c \in Clients : KickSendEnd(c)

SpecWire == Init /\ [][NextWire]_vars

\* C31 (as claimed): at any moment at most one thread is writing a frame to
\* a given connection.
C31_SendsSerialized ==
    \A t, u \in Clients :
        (t # u /\ wr[t].conn # NULL) => wr[t].conn # wr[u].conn

\* C38 (as claimed): a frame for a session is written only to that session's
\* own connection, never to a connection that was accepted on its descriptor
\* number after the reaper closed it.
C38_OwnConnectionOnly ==
    \A t \in Clients : wr[t].conn # NULL => wr[t].conn = wr[t].to

\* The reaper releases session c's memory in this step.
Released(c) == ~freed[c] /\ freed'[c]

\* C32 (as claimed): the reaper releases a session's memory only after it
\* has shut the socket, removed the session from the active list, joined its
\* thread, removed it from every subscriber list, cleared its filters and
\* found in_use free; and after the release no thread uses the session: the
\* reaper does not pop it again and no frame is sent to it.
C32_ReleaseLast ==
    [][ /\ \A c \in Clients :
              Released(c) =>
                  /\ sockShut[c]
                  /\ \A i \in 1..Len(clients) : clients[i] # c
                  /\ pc[c] = "done"
                  /\ subscribed_vars[c] = << >>
                  /\ \A x \in DOMAIN subscribers :
                         \A i \in 1..Len(subscribers[x]) : subscribers[x][i] # c
                  /\ filters[c] = << >>
                  /\ in_use[c] = 0
        /\ rpc' # "uaf"
        /\ \A c \in Clients : freed[c] => sent'[c] = sent[c] ]_vars

\* The writer starts a pass in this step.
PassStarts == fpc # "open" /\ fpc' = "open"

LockOrder == << "clients", "send", "filter", "in_use", "var", "flush" >>
Rank(l) == CHOOSE i \in 1..Len(LockOrder) : LockOrder[i] = l

\* The locks session thread t holds: a send mutex while it is inside
\* Hub_Net_sendPackedMessage, in_use between the rdlock and the unlock of
\* Hub_Client_kick.
Holds(t) ==
    (IF \E d \in Clients : client_lock[d] = t THEN { "send" } ELSE { })
    \cup (IF pc[t] \in { "kick_send", "kick_sending" } THEN { "in_use" } ELSE { })

\* C34 (as claimed): a thread that acquires a lock holds no lock that is
\* later in the order (clients list, send mutex, filter lock, in_use,
\* variable lock, flush mutex), and the clients-list lock is never held
\* together with a variable's lock.
C34_LockOrder ==
    [][ /\ \A t \in Clients :
              \A l \in Holds(t)' \ Holds(t) :
                  \A h \in Holds(t) : Rank(h) < Rank(l)
        /\ global_clients_lock' # "free" =>
              \A x \in VarNames : ~var_wlocked'[x] /\ var_readers'[x] = 0 ]_vars

\* The writer formats the values in this step (the loop of fprintf calls).
WriterReads == fpc = "write" /\ fpc' = "rename"

\* Session thread c reads the size of a subscriber list in this step.
SizeRead(c) == pc[c] = "set_size" /\ pc'[c] # "set_size"

\* C35 (as claimed): while the hub serves, a variable's value is read only
\* with its read lock held and its subscriber list is examined only with its
\* lock held: when the persistence writer reads the values, and when a SET
\* looks at the subscriber list, the variable's lock is held.
C35_StoreAccessLocked ==
    [][ /\ WriterReads => \A x \in PersistentNames : var_readers[x] > 0
        /\ \A c \in Clients :
              SizeRead(c) =>
                  var_readers[fan[c].name] > 0 \/ var_wlocked[fan[c].name] ]_vars

-----------------------------------------------------------------------------
\* Sessions that start unauthenticated and send requests of every namespace,
\* with the shutdown's kick loop marking sessions closed under them.
GateFrames ==
    { F_AuthOk, F_SetDepthA, F_AddDepth, F_FilterMatch, F_OutHot, F_Log }

NextGate ==
    \/ \E c \in Clients : Accept(c)
    \/ PreClose
    \/ MainBreak
    \/ MainKickMark
    \/ MainKickSend
    \/ MainSentinel
    \/ \E c \in Clients : Receive(c, GateFrames)
    \/ \E c \in Clients : ProcReject(c)
    \/ \E c \in Clients : ProcAuth(c)
    \/ \E c \in Clients : AuthSet(c)
    \/ \E c \in Clients : ProcVarSet(c)
    \/ \E c \in Clients : SetSize(c)
    \/ \E c \in Clients : SetFan(c)
    \/ \E c \in Clients : SetSend(c)
    \/ \E c \in Clients : SetFanDone(c)
    \/ \E c \in Clients : ProcWatchAdd(c)
    \/ \E c \in Clients : ProcAddFilter(c)
    \/ \E c \in Clients : ProcNotifyOut(c)
    \/ \E c \in Clients : BcastCheck(c)
    \/ \E c \in Clients : BcastUnlock(c)
    \/ \E c \in Clients : BcastSend(c)
    \/ \E c \in Clients : BcastDone(c)
    \/ \E c \in Clients : ProcLog(c)

SpecGate == Init /\ [][NextGate]_vars

\* Session c's thread dispatches a service request in this step.
Dispatches(c) ==
    /\ pc[c] = "process" /\ pc'[c] # "process"
    /\ msg[c].count > 0
    /\ msg[c].comps[1] \in { "NOTIFY", "VAR", "WATCH", "LOG" }

C36_VarLockReleased == \A x \in VarNames : ~var_wlocked[x]

\* C40 (as claimed): in the fan-out of one VAR SET no session is sent the
\* WATCH frame more than once, whatever WATCH ADD requests it has made.
C40_OneWatchPerSet ==
    \A c \in Clients :
        \A i, j \in 1..Len(fan[c].to) : i # j => fan[c].to[i] # fan[c].to[j]

-----------------------------------------------------------------------------
\* Start-up: main() calls Hub_Config_init, Hub_Var_init and Hub_Logging_init
\* and then Hub_Net_mainLoop, which makes the server socket, starts the
\* reaper and accepts.  Hub_Net_init, which makes the clients list and the
\* closed-clients queue, has no caller: both pointers keep their static
\* initialiser NULL.

\* Values the database file may hold for a persistent variable.
DbValues == { VarDefs[x].default : x \in VarNames } \cup { Atof("2.75") }

\* sscanf(var_value, "%f", &value) of a line the writer has formatted.
Sscanf(str) == CHOOSE v \in DbValues : Format4(v) = str

InitBoot ==
    /\ state = [c \in Clients |-> "UNKNOWN"]
    /\ clients = <<>>
    /\ closed_clients = <<>>
    /\ sockShut = [c \in Clients |-> FALSE]
    /\ in_use = [c \in Clients |-> 0]
    /\ freed = [c \in Clients |-> FALSE]
    /\ pc = [c \in Clients |-> "none"]
    /\ msg = [c \in Clients |-> NoMsg]
    /\ reqs = [c \in Clients |-> 0]
    /\ kreason = [c \in Clients |-> ""]
    /\ sent = [c \in Clients |-> <<>>]
    /\ rpc = "none"
    /\ rcur = NULL
    /\ mpc = "accept"
    /\ mi = 1
    /\ run_mainloop = TRUE
    /\ mainloop_running = FALSE
    /\ global_clients_lock = "free"
    /\ value = [x \in VarNames |-> VarDefs[x].default]
    /\ subscribers = [x \in VarNames |-> <<>>]
    /\ subscribed_vars = [c \in Clients |-> <<>>]
    /\ var_wlocked = [x \in VarNames |-> FALSE]
    /\ var_readers = [x \in VarNames |-> 0]
    /\ do_flush_flag = 0
    /\ fan = [c \in Clients |-> NoFan]
    /\ lastSet = [x \in VarNames |-> ""]
    /\ hublog = {}
    /\ filters = [c \in Clients |-> << >>]
    /\ bcast = [c \in Clients |-> NoBcast]
    /\ notified = [d \in Clients |-> [a \in Clients |-> 0]]
    /\ sendres = NoSend
    /\ sock = [c \in Clients |-> NULL]
    /\ fdOwner = [k \in Clients |-> NULL]
    /\ client_lock = [c \in Clients |-> NULL]
    /\ wr = [c \in Clients |-> NoWrite]
    /\ boot = [at |-> "config", lists |-> "NULL", backlog |-> 0]
    /\ fpc = "none"
    /\ tmp_db = NoFile
    /\ \E f \in [PersistentNames -> DbValues] : db = [x \in PersistentNames |-> Format4(f[x])]
    /\ iofailed = FALSE
    /\ cpc = "idle"
    /\ atSignal = [x \in PersistentNames |-> -1]
    /\ passes = 0
    /\ LibInit

\* No thread of the starting hub has faulted.
BootAlive == Alive /\ rpc # "crashed" /\ mpc # "crashed"

\* What a start-up step of main leaves alone.
BootFrame ==
    /\ UNCHANGED << state, closed_clients, in_use, pc, msg, reqs, kreason, sent,
                    clients, sockShut, freed, rcur, mi, run_mainloop,
                    global_clients_lock, subscribers, subscribed_vars,
                    var_wlocked, var_readers, do_flush_flag, fan, lastSet >>
    /\ UNCHANGED noteVars
    /\ sendres' = NoSend
    /\ UNCHANGED << tmp_db, db, iofailed, cpc, atSignal, passes >>
    /\ UNCHANGED libVars
    /\ UNCHANGED wireVars

\* Hub_Config_init.
BootConfig ==
    /\ boot.at = "config"
    /\ boot' = [boot EXCEPT !.at = "var"]
    /\ UNCHANGED << value, fpc, rpc, mpc, mainloop_running, hublog >>
    /\ BootFrame

\* Hub_Var_init: definitions, then the persistent values of the database
\* file, then the writer thread is spawned.
BootVar ==
    /\ boot.at = "var"
    /\ value' = [x \in VarNames |->
                    IF VarDefs[x].persistent THEN Sscanf(db[x])
                    ELSE VarDefs[x].default]
    /\ fpc' = "test"
    /\ boot' = [boot EXCEPT !.at = "logging"]
    /\ UNCHANGED << rpc, mpc, mainloop_running, hublog >>
    /\ BootFrame

\* Hub_Logging_init and atexit(Hub_close).
BootLogging ==
    /\ boot.at = "logging"
    /\ boot' = [boot EXCEPT !.at = "mainloop"]
    /\ UNCHANGED << value, fpc, rpc, mpc, mainloop_running, hublog >>
    /\ BootFrame

\* Hub_Net_mainLoop: the server socket listens.
BootSocket ==
    /\ boot.at = "mainloop"
    /\ Hub_Logging_log(INFO, "Accepting client connections")
    /\ boot' = [boot EXCEPT !.at = "listening"]
    /\ UNCHANGED << value, fpc, rpc, mpc, mainloop_running >>
    /\ BootFrame

\* A client connects; the connection waits in the backlog.
Connect ==
    /\ boot.at \in { "listening", "serving" } /\ boot.backlog < NClients
    /\ boot' = [boot EXCEPT !.backlog = @ + 1]
    /\ UNCHANGED << value, fpc, rpc, mpc, mainloop_running, hublog >>
    /\ BootFrame

\* Hub_Net_mainLoop: mainloop_running = true and the reaper is spawned; main
\* goes on to accept().
BootSpawn ==
    /\ boot.at = "listening"
    /\ mainloop_running' = TRUE
    /\ rpc' = "pop"
    /\ boot' = [boot EXCEPT !.at = "serving"]
    /\ UNCHANGED << value, fpc, mpc, hublog >>
    /\ BootFrame

\* The reaper's first Queue_pop(closed_clients, ...) is given NULL: the
\* thread faults.
ReaperNull ==
    /\ boot.at = "serving" /\ boot.lists = "NULL" /\ rpc = "pop"
    /\ rpc' = "crashed"
    /\ UNCHANGED << value, fpc, mpc, mainloop_running, hublog, boot >>
    /\ BootFrame

\* accept() returns a connection and Hub_Net_acceptClient calls
\* List_getSize(clients) with NULL: the thread faults.
AcceptNull ==
    /\ boot.at = "serving" /\ boot.lists = "NULL" /\ boot.backlog > 0
    /\ mpc = "accept" /\ run_mainloop
    /\ boot' = [boot EXCEPT !.backlog = @ - 1]
    /\ mpc' = "crashed"
    /\ UNCHANGED << value, fpc, rpc, mainloop_running, hublog >>
    /\ BootFrame

NextBoot ==
    \/ BootAlive /\ BootConfig
    \/ BootAlive /\ BootVar
    \/ BootAlive /\ BootLogging
    \/ BootAlive /\ BootSocket
    \/ BootAlive /\ Connect
    \/ BootAlive /\ BootSpawn
    \/ BootAlive /\ ReaperNull
    \/ BootAlive /\ AcceptNull
    \/ BootAlive /\ FlusherTest
    \/ BootAlive /\ FlusherWait

SpecBoot == InitBoot /\ [][NextBoot]_vars

\* C39 (as claimed): when the main loop has started the reaper and accepts
\* connections, the clients list and the closed-clients queue exist.
C39_ListsBeforeLoop == boot.at = "serving" => boot.lists = "new"

====
